---- MODULE Spec2Model ----
(***************************************************************************)
(* Model of the scroll-collection engine of meituan_pharmacy_scraper:      *)
(* DeviceWorker (core/worker.py), StateStore (core/state_store.py) and the *)
(* record buffer of ExcelExporter (core/exporter.py).                      *)
(*                                                                         *)
(* One device worker is modelled: the controller thread (start / pause /   *)
(* resume / stop), the worker thread (_run and everything it calls), the   *)
(* detached correction timers, the state file and the exported files.      *)
(* A UI snapshot is abstracted to what the code reads from it: the product *)
(* cards (name, Y), the category titles of the product area, the first     *)
(* divider line, the next entry of the side index and the highlighted      *)
(* entry of the side index.                                                *)
(***************************************************************************)
EXTENDS Integers, Sequences, FiniteSets, TLC

(***************************************************************************)
(* Bounds of the model                                                     *)
(***************************************************************************)
NumTasks == 2        \* length of the task list
MaxScroll == 3       \* scroll.max_scroll_times of the configuration
MaxEvents == 2       \* controller calls that take effect, and process restarts
MaxSnaps == 3        \* screen captures of the collection loops
MaxTitles == 2       \* titles per snapshot in SpecZones
MaxRecs == 4         \* records drawn freely in SpecCorrection
PadRecs == 6         \* records of category A ahead of them in a long list

(***************************************************************************)
(* Program constants                                                       *)
(***************************************************************************)
NoNewThreshold == 3      \* scroll.no_new_data_threshold
LastThreshold == 10      \* threshold used on the last category
SearchLimit == 8         \* window of the retroactive correction
ScreenHeight == 2560     \* displayHeight default
TopProtectY == 896       \* int(ScreenHeight * 0.35), the "front row" guard

\* the label "unknown category" that _collect_seamless starts with
UNKNOWN == "unknown"

IDLE == "IDLE"
RUNNING == "RUNNING"
PAUSED == "PAUSED"
STOPPING == "STOPPING"
STOPPED == "STOPPED"
COMPLETED == "COMPLETED"
ERROR == "ERROR"

VARIABLES
  status,      \* DeviceWorker._status
  pauseEvent,  \* DeviceWorker._pause_event is set
  stopEvent,   \* DeviceWorker._stop_event is set
  threads,     \* number of live worker threads
  ctl,         \* position of the controller thread inside pause/resume/stop
  pc,          \* position of the worker thread
  lv,          \* worker attributes and locals of the running methods
  st,          \* StateStore.state
  keysSet,     \* StateStore.collected_keys_set
  file,        \* the state file (NoFile when absent)
  records,     \* ExcelExporter.records
  exp,         \* ExcelExporter.current_shop_name / current_task_id
  exported,    \* result files written so far
  corrQ,       \* detached correction timers not yet fired
  used,        \* what the run has used of the bounds of the model
  g,           \* history of the run, for stating the properties
  fn           \* inputs and result of SpecZones and SpecCorrection

vars == <<status, pauseEvent, stopEvent, threads, ctl, pc, lv, st, keysSet,
          file, records, exp, exported, corrQ, used, g, fn>>

ctlVars == <<status, pauseEvent, stopEvent, threads, ctl>>

(***************************************************************************)
(* Data                                                                    *)
(***************************************************************************)
NoFile == [absent |-> TRUE]

Task(i) == [shop |-> i, poi |-> "X"]

Tasks == [i \in 1..NumTasks |-> Task(i)]

\* the side index of a shop, as _get_category_list reads it
Cats == <<"A", "B">>

\* MockAutomator.MOCK_CATEGORIES / MOCK_DRUGS, scaled down
MockCategories == <<"A", "B">>

MockDrugs == <<"p1", "p2">>

\* str.strip() on the names the model uses: "p1 " is a padded "p1"
Strip(s) == IF s = "p1 " THEN "p1" ELSE s

SeqToSet(s) == {s[i] : i \in DOMAIN s}

IndexOf(s, x) == CHOOSE i \in DOMAIN s : s[i] = x /\ \A j \in DOMAIN s : s[j] = x => i <= j

Max(a, b) == IF a >= b THEN a ELSE b

(***************************************************************************)
(* StateStore                                                              *)
(***************************************************************************)
InitState ==
  [ current_task_index |-> 0,
    current_shop_name |-> 0,
    current_category_index |-> 0,
    current_category_name |-> "",
    collected_keys |-> <<>>,
    collected_count |-> 0,
    all_categories |-> <<>>,
    risk_control_hit |-> FALSE,
    categories |-> <<>> ]

\* generate_key that keeps the category in the key
generate_key_with_category(shop_name, category_name, drug_name, price) ==
  <<shop_name, category_name, Strip(drug_name)>>

generate_key(shop_name, category_name, drug_name, price) ==
  <<shop_name, Strip(drug_name)>>

\* is_collected with the membership test lost
is_collected_never(key) == FALSE

is_collected(key) == key \in keysSet

reset_for_new_shop(s, shop_name) ==
  [s EXCEPT !.current_shop_name = shop_name,
            !.current_category_index = 0,
            !.current_category_name = "",
            !.collected_keys = <<>>,
            !.collected_count = 0,
            !.all_categories = <<>>,
            !.risk_control_hit = FALSE]

\* json.dump / json.load of the values the state dictionary holds: an int
\* is a number, a str a string, a bool true / false, a list of str an array
\* of strings
JNumber(n) == [json |-> "number", v |-> n]

JString(x) == [json |-> "string", v |-> x]

JBool(b) == [json |-> IF b THEN "true" ELSE "false"]

JArray(a) == [json |-> "array", v |-> [i \in DOMAIN a |-> JString(a[i])]]

FromJBool(j) == j.json = "true"

FromJArray(j) == [i \in DOMAIN j.v |-> j.v[i].v]

\* json.dump that writes the keys of the constructor only
json_dump_known_keys(s) ==
  [ current_task_index |-> JNumber(s.current_task_index),
    current_shop_name |-> JString(s.current_shop_name),
    current_category_index |-> JNumber(s.current_category_index),
    current_category_name |-> JString(s.current_category_name),
    collected_keys |-> JArray(s.collected_keys),
    collected_count |-> JNumber(s.collected_count),
    all_categories |-> JArray(s.all_categories),
    risk_control_hit |-> JBool(s.risk_control_hit),
    categories |-> JArray(<<>>) ]

\* json.dump(self.state): one member per key of the dictionary ("categories"
\* is a key only once a seamless run has set it; every reader takes the
\* missing key as the empty list)
json_dump(s) ==
  [ current_task_index |-> JNumber(s.current_task_index),
    current_shop_name |-> JString(s.current_shop_name),
    current_category_index |-> JNumber(s.current_category_index),
    current_category_name |-> JString(s.current_category_name),
    collected_keys |-> JArray(s.collected_keys),
    collected_count |-> JNumber(s.collected_count),
    all_categories |-> JArray(s.all_categories),
    risk_control_hit |-> JBool(s.risk_control_hit),
    categories |-> JArray(s.categories) ]

\* json.load of the document
json_load(f) ==
  [ current_task_index |-> f.current_task_index.v,
    current_shop_name |-> f.current_shop_name.v,
    current_category_index |-> f.current_category_index.v,
    current_category_name |-> f.current_category_name.v,
    collected_keys |-> FromJArray(f.collected_keys),
    collected_count |-> f.collected_count.v,
    all_categories |-> FromJArray(f.all_categories),
    risk_control_hit |-> FromJBool(f.risk_control_hit),
    categories |-> FromJArray(f.categories) ]

\* the document that save() writes
save(s) == json_dump(s)

\* state.update(loaded_state): every key of the file replaces the key in
\* memory; "categories" is in the file only once a seamless run has set it
load(s, f) ==
  LET loaded_state == json_load(f)
  IN [loaded_state EXCEPT !.categories = IF loaded_state.categories # <<>>
                                           THEN loaded_state.categories ELSE s.categories]

\* mark_risk_control that keeps the category list but never raises the flag
mark_risk_control_noflag(s, categories) == [s EXCEPT !.all_categories = categories]

mark_risk_control(s, categories) ==
  [s EXCEPT !.risk_control_hit = TRUE, !.all_categories = categories]

clear_risk_control(s) == [s EXCEPT !.risk_control_hit = FALSE]

(***************************************************************************)
(* Controller: start / pause / resume / stop.  Each call is a sequence of  *)
(* assignments; c is [status, pauseEvent, stopEvent, threads].             *)
(***************************************************************************)
Ctl == [status |-> status, pauseEvent |-> pauseEvent, stopEvent |-> stopEvent,
        threads |-> threads]

\* start without the test for a live thread
start_unguarded(c) ==
  [status |-> RUNNING, pauseEvent |-> TRUE, stopEvent |-> FALSE, threads |-> c.threads + 1]

start(c) ==
  IF c.threads > 0 THEN c
  ELSE [status |-> RUNNING, pauseEvent |-> TRUE, stopEvent |-> FALSE,
        threads |-> c.threads + 1]

pause_clear(c) == [c EXCEPT !.pauseEvent = FALSE]

pause_status(c) == [c EXCEPT !.status = PAUSED]

pause(c) == IF c.status = RUNNING THEN pause_status(pause_clear(c)) ELSE c

resume_set(c) == [c EXCEPT !.pauseEvent = TRUE]

resume_status(c) == [c EXCEPT !.status = RUNNING]

resume(c) == IF c.status = PAUSED THEN resume_status(resume_set(c)) ELSE c

stop_set(c) == [c EXCEPT !.stopEvent = TRUE]

stop_release(c) == [c EXCEPT !.pauseEvent = TRUE]

stop_status(c) == [c EXCEPT !.status = STOPPING]

stop(c) == stop_status(stop_release(stop_set(c)))

SetCtl(c) ==
  /\ status' = c.status
  /\ pauseEvent' = c.pauseEvent
  /\ stopEvent' = c.stopEvent
  /\ threads' = c.threads

InitLocals(mock) ==
  [ is_mock |-> mock,           \* DeviceWorker._is_mock (serial starts with MOCK-)
    current_task_index |-> 0,   \* DeviceWorker.current_task_index
    collected_count |-> 0,      \* DeviceWorker.collected_count
    error_message |-> "",       \* DeviceWorker._error_message
    connected |-> FALSE,        \* the automator holds a device connection
    i |-> 0,                    \* loop variable of _run
    resume_mode |-> FALSE,
    after_resume |-> FALSE,     \* _process_shop was called from the recovery branch
    path |-> "none",            \* collection loop in use
    categories |-> <<>>,
    current_category |-> "",
    current_category_index |-> 0,
    is_last_category |-> FALSE,
    no_new_count |-> 0,
    scroll_count |-> 0,
    mock_index |-> 0,           \* cat_idx of _process_shop_mock
    mode |-> "NORMAL",          \* mode of the collection call of this iteration
    boundary_y |-> 0,
    has_boundary |-> FALSE,     \* the iteration took the boundary branch
    next_category |-> "",       \* next_category passed to the collection call
    zones |-> <<>>,             \* category zones of this snapshot
    next_cat |-> "",            \* next-category candidate of this iteration
    divider_y |-> 0,            \* divider Y of this iteration (0: none)
    last_target |-> "",         \* category of the record being added
    selected |-> "",            \* highlighted side-index entry of this iteration
    pending |-> <<>>,           \* cards of the snapshot not yet handled
    current_new_count |-> 0,
    next_new_count |-> 0 ]

InitHistory ==
  [ killed_mid_shop |-> FALSE,  \* the process was killed inside a shop and started again
    loaded_keys |-> {},         \* keys of the state file that the new process loaded
    reemitted |-> FALSE,        \* a record was appended for one of them
    zero_same |-> 0,            \* consecutive iterations without a category switch that accepted nothing
    owed |-> FALSE,             \* a risk-control pause was resumed with categories left
    failed |-> -1 ]             \* index of the task that has just failed, -1 once
                                \* the next task has begun or the thread has ended

InitUsed == [events |-> 0, snaps |-> 0]

InitFn == [op |-> "none"]

InitProgram ==
  /\ status = IDLE
  /\ pauseEvent = TRUE
  /\ stopEvent = FALSE
  /\ threads = 0
  /\ ctl = "idle"
  /\ pc = "none"
  /\ \E mock \in BOOLEAN : lv = InitLocals(mock)
  /\ st = InitState
  /\ keysSet = {}
  /\ file = NoFile
  /\ records = <<>>
  /\ exp = [shop |-> 0, task_id |-> 1]
  /\ exported = {}
  /\ corrQ = {}
  /\ used = InitUsed
  /\ g = InitHistory

Init ==
  /\ InitProgram
  /\ fn = InitFn

(***************************************************************************)
(* Snapshots: what one capture of the screen yields to the readers of the  *)
(* code.  items are the product cards in document order, titles the texts  *)
(* of the product area that may be category titles, divider the Y of the   *)
(* topmost divider line (0: none), side_next the entry after the           *)
(* highlighted one in the side index, selected the highlighted entry.      *)
(***************************************************************************)
Item(n, y) == [name |-> n, y |-> y]

Snap(items, titles, divider, side_next, selected) ==
  [items |-> items, titles |-> titles, divider |-> divider, side_next |-> side_next,
   selected |-> selected]

TwoCards == <<Item("p1", 500), Item("p2", 900)>>

Snapshots ==
  { Snap(<<>>, <<>>, 0, "", ""),                        \* nothing on screen
    Snap(<<Item("p1", 500)>>, <<>>, 0, "", ""),         \* one card, no boundary
    Snap(TwoCards, <<>>, 700, "B", ""),                 \* divider, next entry known
    Snap(TwoCards, <<>>, 700, "B", "B"),                \* the same, side index on B
    Snap(TwoCards, <<>>, 700, "", ""),                  \* divider, next entry unknown
    Snap(TwoCards, <<Item("B", 800)>>, 0, "", "B") }    \* title of B between the cards

(***************************************************************************)
(* Category zones                                                          *)
(***************************************************************************)
\* list.sort(key=y): stable insertion of each element into the sorted prefix
RECURSIVE SortByY(_)
SortByY(s) ==
  IF s = <<>> THEN <<>>
  ELSE LET r == SortByY(SubSeq(s, 1, Len(s) - 1))
           x == s[Len(s)]
           k == Cardinality({i \in DOMAIN r : r[i].y <= x.y})
       IN SubSeq(r, 1, k) \o <<x>> \o SubSeq(r, k + 1, Len(r))

\* top_filter_max_y = screen_height * 0.12
TopFilterY == 307

_detect_all_category_titles_on_screen(titles, category_set) ==
  SortByY(SelectSeq(titles, LAMBDA t : t.name \in category_set /\ t.y >= TopFilterY))

_build_category_zones(category_titles, screen_height) ==
  [i \in DOMAIN category_titles |->
     [ name |-> category_titles[i].name,
       y_start |-> category_titles[i].y,
       y_end |-> IF i + 1 <= Len(category_titles)
                   THEN category_titles[i + 1].y ELSE screen_height ]]

\* _find_category_by_y whose last rule takes the last zone for every item
\* that no zone holds, the ones above the first title included
_find_category_by_y_lastzone(y, category_zones, fallback_category) ==
  IF category_zones = <<>> THEN fallback_category
  ELSE LET hits == {i \in DOMAIN category_zones :
                      category_zones[i].y_start <= y /\ y < category_zones[i].y_end}
       IN IF hits # {}
            THEN category_zones[CHOOSE i \in hits : \A j \in hits : i <= j].name
            ELSE category_zones[Len(category_zones)].name

_find_category_by_y(y, category_zones, fallback_category) ==
  IF category_zones = <<>> THEN fallback_category
  ELSE LET hits == {i \in DOMAIN category_zones :
                      category_zones[i].y_start <= y /\ y < category_zones[i].y_end}
       IN IF hits # {}
            THEN category_zones[CHOOSE i \in hits : \A j \in hits : i <= j].name
            ELSE IF y >= category_zones[Len(category_zones)].y_start
                   THEN category_zones[Len(category_zones)].name
                   ELSE fallback_category

(***************************************************************************)
(* Boundary detection                                                      *)
(***************************************************************************)
\* (has_boundary, next_category, divider_y); None is ""
_detect_category_boundary(snap) ==
  IF snap.divider = 0
    THEN [has |-> FALSE, next |-> "", y |-> 0]
    ELSE [has |-> TRUE, next |-> snap.side_next, y |-> snap.divider]

\* the card with the largest Y among the cards above the boundary
_find_last_product_above_boundary(items, boundary_y) ==
  LET above == {i \in DOMAIN items : items[i].y < boundary_y}
  IN IF above = {} THEN ""
     ELSE LET top == {i \in above : \A j \in above : items[j].y <= items[i].y}
          IN items[CHOOSE i \in top : \A j \in top : i <= j].name

(***************************************************************************)
(* Attribution of one card in _collect_products_by_structure               *)
(***************************************************************************)
SKIP == "skip"

\* attribution without the divider split
TargetCategory_no_split(y, category_name, mode, boundary_y, next_category, category_zones) ==
  IF category_zones # <<>>
    THEN _find_category_by_y(y, category_zones, category_name)
    ELSE category_name

\* attribution that asks the divider before the zones
TargetCategory_divider_first(y, category_name, mode, boundary_y, next_category, category_zones) ==
  IF mode = "BOUNDARY" /\ boundary_y > 0 /\ y >= boundary_y /\ next_category # ""
    THEN next_category
    ELSE _find_category_by_y(y, category_zones, category_name)

TargetCategory(y, category_name, mode, boundary_y, next_category, category_zones) ==
  LET t1 == IF category_zones # <<>>
              THEN _find_category_by_y(y, category_zones, category_name)
              ELSE IF mode = "BOUNDARY" /\ boundary_y > 0
                     THEN IF y < boundary_y THEN category_name
                          ELSE IF next_category = "" THEN SKIP ELSE next_category
                     ELSE category_name
  IN IF t1 = SKIP THEN SKIP
     ELSE IF category_zones = <<>> /\ y < TopProtectY /\ t1 # category_name
            THEN category_name
            ELSE t1

create_drug_record(category_name, drug_name) ==
  [category_name |-> Strip(category_name), drug_name |-> Strip(drug_name)]

(***************************************************************************)
(* Retroactive correction                                                  *)
(***************************************************************************)
\* the loop "for j in range(found_idx + 1, len(records))"
RECURSIVE CorrectFrom(_, _, _, _, _)
CorrectFrom(recs, j, current_category, next_category, fix_count) ==
  IF j > Len(recs) THEN [records |-> recs, fix_count |-> fix_count]
  ELSE LET old_cat == recs[j].category_name
       IN IF old_cat # current_category /\ old_cat # next_category /\ old_cat # UNKNOWN
            THEN [records |-> recs, fix_count |-> fix_count]
            ELSE IF old_cat # next_category
                   THEN CorrectFrom([recs EXCEPT ![j].category_name = next_category],
                                    j + 1, current_category, next_category, fix_count + 1)
                   ELSE CorrectFrom(recs, j + 1, current_category, next_category, fix_count)

\* an anchor search over the whole list
FindAnchorAnywhere(recs, anchor_name) ==
  LET found == {i \in DOMAIN recs : recs[i].drug_name = anchor_name}
  IN IF found = {} THEN 0 ELSE CHOOSE i \in found : \A j \in found : j <= i

\* index of the anchor among the last SearchLimit records, 0 when absent
FindAnchor(recs, anchor_name) ==
  LET start_idx == Max(0, Len(recs) - SearchLimit)
      found == {i \in (start_idx + 1)..Len(recs) : recs[i].drug_name = anchor_name}
  IN IF found = {} THEN 0 ELSE CHOOSE i \in found : \A j \in found : j <= i

\* the correction loop with "continue" in the place of "break": a record of
\* a third category is passed over and the loop goes on behind it
RECURSIVE CorrectFromContinue(_, _, _, _, _)
CorrectFromContinue(recs, j, current_category, next_category, fix_count) ==
  IF j > Len(recs) THEN [records |-> recs, fix_count |-> fix_count]
  ELSE LET old_cat == recs[j].category_name
       IN IF old_cat # current_category /\ old_cat # next_category /\ old_cat # UNKNOWN
            THEN CorrectFromContinue(recs, j + 1, current_category, next_category, fix_count)
            ELSE IF old_cat # next_category
                   THEN CorrectFromContinue([recs EXCEPT ![j].category_name = next_category],
                                            j + 1, current_category, next_category,
                                            fix_count + 1)
                   ELSE CorrectFromContinue(recs, j + 1, current_category, next_category,
                                            fix_count)

\* result: the record list afterwards, the returned value (NONE when the
\* function falls off its end without a return statement) and whether that
\* value is an int
NONE == "None"

_perform_retroactive_correction_continue(recs, anchor_name, current_category, next_category) ==
  IF recs = <<>> THEN [records |-> recs, ret |-> 0, ret_is_int |-> TRUE]
  ELSE LET found_idx == FindAnchor(recs, anchor_name)
       IN IF found_idx = 0 THEN [records |-> recs, ret |-> 0, ret_is_int |-> TRUE]
          ELSE LET r == CorrectFromContinue(recs, found_idx + 1, current_category,
                                            next_category, 0)
               IN [records |-> r.records,
                   ret |-> IF r.fix_count > 0 THEN r.fix_count ELSE NONE,
                   ret_is_int |-> r.fix_count > 0]

\* a correction that starts at the anchor itself
_perform_retroactive_correction_from_anchor(recs, anchor_name, current_category, next_category) ==
  IF recs = <<>> THEN [records |-> recs, ret |-> 0, ret_is_int |-> TRUE]
  ELSE LET found_idx == FindAnchor(recs, anchor_name)
       IN IF found_idx = 0 THEN [records |-> recs, ret |-> 0, ret_is_int |-> TRUE]
          ELSE LET r == CorrectFrom(recs, found_idx, current_category, next_category, 0)
               IN [records |-> r.records,
                   ret |-> IF r.fix_count > 0 THEN r.fix_count ELSE NONE,
                   ret_is_int |-> r.fix_count > 0]

_perform_retroactive_correction(recs, anchor_name, current_category, next_category) ==
  IF recs = <<>> THEN [records |-> recs, ret |-> 0, ret_is_int |-> TRUE]
  ELSE LET found_idx == FindAnchor(recs, anchor_name)
       IN IF found_idx = 0 THEN [records |-> recs, ret |-> 0, ret_is_int |-> TRUE]
          ELSE LET r == CorrectFrom(recs, found_idx + 1, current_category, next_category, 0)
               IN [records |-> r.records,
                   ret |-> IF r.fix_count > 0 THEN r.fix_count ELSE NONE,
                   ret_is_int |-> r.fix_count > 0]

(***************************************************************************)
(* Controller thread                                                       *)
(***************************************************************************)
Start ==
  /\ ctl = "idle"
  /\ threads > 0 \/ used.events < MaxEvents
  /\ SetCtl(start(Ctl))
  /\ pc' = IF threads > 0 THEN pc ELSE "connect"
  /\ used' = IF threads > 0 THEN used ELSE [used EXCEPT !.events = @ + 1]
  /\ UNCHANGED <<ctl, lv, st, keysSet, file, records, exp, exported, corrQ, g, fn>>

PauseBegin ==
  /\ ctl = "idle"
  /\ used.events < MaxEvents
  /\ used' = [used EXCEPT !.events = @ + 1]
  /\ status = RUNNING
  /\ SetCtl(pause_clear(Ctl))
  /\ ctl' = "pause"
  /\ UNCHANGED <<pc, lv, st, keysSet, file, records, exp, exported, corrQ, g, fn>>

PauseEnd ==
  /\ ctl = "pause"
  /\ SetCtl(pause_status(Ctl))
  /\ file' = save(st)
  /\ ctl' = "idle"
  /\ UNCHANGED <<pc, lv, st, keysSet, records, exp, exported, corrQ, used, g, fn>>

ResumeBegin ==
  /\ ctl = "idle"
  /\ used.events < MaxEvents
  /\ used' = [used EXCEPT !.events = @ + 1]
  /\ status = PAUSED
  /\ SetCtl(resume_set(Ctl))
  /\ ctl' = "resume"
  /\ UNCHANGED <<pc, lv, st, keysSet, file, records, exp, exported, corrQ, g, fn>>

ResumeEnd ==
  /\ ctl = "resume"
  /\ SetCtl(resume_status(Ctl))
  /\ ctl' = "idle"
  /\ UNCHANGED <<pc, lv, st, keysSet, file, records, exp, exported, corrQ, used, g, fn>>

StopBegin ==
  /\ ctl = "idle"
  /\ used.events < MaxEvents
  /\ used' = [used EXCEPT !.events = @ + 1]
  /\ SetCtl(stop_set(Ctl))
  /\ ctl' = "stop1"
  /\ UNCHANGED <<pc, lv, st, keysSet, file, records, exp, exported, corrQ, g, fn>>

StopRelease ==
  /\ ctl = "stop1"
  /\ SetCtl(stop_release(Ctl))
  /\ ctl' = "stop2"
  /\ UNCHANGED <<pc, lv, st, keysSet, file, records, exp, exported, corrQ, used, g, fn>>

StopEnd ==
  /\ ctl = "stop2"
  /\ SetCtl(stop_status(Ctl))
  /\ file' = save(st)
  /\ ctl' = "idle"
  /\ UNCHANGED <<pc, lv, st, keysSet, records, exp, exported, corrQ, used, g, fn>>

(***************************************************************************)
(* Worker thread: _run                                                     *)
(***************************************************************************)
ThreadExit ==
  /\ threads' = threads - 1
  /\ pc' = "none"

\* automator.connect() fails: status ERROR, the thread returns
RunConnectFail ==
  /\ pc = "connect"
  /\ status' = ERROR
  /\ lv' = [lv EXCEPT !.error_message = "connect"]
  /\ ThreadExit
  /\ UNCHANGED <<pauseEvent, stopEvent, ctl, st, keysSet, file, records, exp,
                 exported, corrQ, used, g, fn>>

\* an exception raised in _run outside _process_shop: by the progress callback
\* or the log call between the save of the task index and _process_shop, or
\* by the status callback or the log call behind the task loop.  The handler
\* of _run sets ERROR and keeps the message, the finally clause disconnects.
\* It is a step of SpecError only.
RunError ==
  /\ \/ pc = "shop_begin" /\ ~lv.after_resume
     \/ pc = "finish"
  /\ status' = ERROR
  /\ lv' = [lv EXCEPT !.error_message = "exception", !.connected = FALSE]
  /\ g' = [g EXCEPT !.failed = -1]
  /\ ThreadExit
  /\ UNCHANGED <<pauseEvent, stopEvent, ctl, st, keysSet, file, records, exp,
                 exported, corrQ, used, fn>>

\* connect() succeeds and the state file is loaded
RunLoad ==
  /\ pc = "connect"
  /\ LET loaded == file # NoFile
         s1 == IF loaded THEN load(st, file) ELSE st
         ti == IF loaded THEN s1.current_task_index ELSE lv.current_task_index
         resume_from_risk_control == loaded /\ s1.risk_control_hit
     IN /\ st' = s1
        /\ keysSet' = IF loaded THEN SeqToSet(s1.collected_keys) ELSE keysSet
        /\ lv' = [lv EXCEPT !.current_task_index = ti, !.i = ti, !.connected = TRUE]
        /\ pc' = IF resume_from_risk_control /\ ti < NumTasks THEN "resume_nav" ELSE "loop"
        /\ g' = [g EXCEPT !.loaded_keys = IF loaded /\ g.killed_mid_shop
                                            THEN SeqToSet(s1.collected_keys) ELSE {},
                          !.reemitted = FALSE]
  /\ UNCHANGED <<status, pauseEvent, stopEvent, threads, ctl, file, records, exp,
                 exported, corrQ, used, fn>>

\* the recovery branch: _resume_to_shop, then _process_shop(resume_mode=True)
RunResumeNav ==
  /\ pc = "resume_nav"
  /\ \/ /\ st' = clear_risk_control(st)
        /\ file' = save(st')
        /\ lv' = [lv EXCEPT !.resume_mode = TRUE, !.after_resume = TRUE]
        /\ pc' = "shop_begin"
        /\ UNCHANGED g
     \/ /\ lv' = [lv EXCEPT !.current_task_index = @ + 1, !.i = lv.current_task_index + 1]
        /\ pc' = "loop"
        /\ g' = [g EXCEPT !.failed = lv.current_task_index]
        /\ UNCHANGED <<st, file>>
  /\ UNCHANGED <<status, pauseEvent, stopEvent, threads, ctl, keysSet, records, exp,
                 exported, corrQ, used, fn>>

\* _check_control: False once stop is set, blocks while the pause event is clear
Stopped == stopEvent

Blocked == ~stopEvent /\ ~pauseEvent

Proceed == ~stopEvent /\ pauseEvent

\* a task loop that sets the index in memory only
RunLoop_no_save ==
  /\ pc = "loop"
  /\ IF lv.i >= NumTasks \/ Stopped
       THEN /\ pc' = "finish"
            /\ UNCHANGED <<lv, st>>
       ELSE /\ Proceed
            /\ lv' = [lv EXCEPT !.current_task_index = lv.i, !.resume_mode = FALSE,
                                !.after_resume = FALSE]
            /\ st' = [st EXCEPT !.current_task_index = lv.i]
            /\ pc' = "shop_begin"
  /\ UNCHANGED <<status, pauseEvent, stopEvent, threads, ctl, keysSet, file, records, exp,
                 exported, corrQ, used, g, fn>>

\* the body of the task loop up to the call of _process_shop
RunLoopTask ==
  /\ lv' = [lv EXCEPT !.current_task_index = lv.i, !.resume_mode = FALSE,
                      !.after_resume = FALSE]
  /\ st' = [st EXCEPT !.current_task_index = lv.i]
  /\ file' = save(st')
  /\ pc' = "shop_begin"
  /\ UNCHANGED <<status, pauseEvent, stopEvent, threads, ctl, keysSet, records, exp,
                 exported, corrQ, used, g, fn>>

\* head of the task loop
RunLoop ==
  /\ pc = "loop"
  /\ IF lv.i >= NumTasks \/ Stopped
       THEN /\ pc' = "finish"
            /\ UNCHANGED <<lv, st, file>>
            /\ UNCHANGED <<status, pauseEvent, stopEvent, threads, ctl, keysSet, records,
                           exp, exported, corrQ, used, g, fn>>
       ELSE /\ Proceed
            /\ RunLoopTask

RunFinish ==
  /\ pc = "finish"
  /\ status' = IF ~stopEvent THEN COMPLETED ELSE STOPPED
  /\ lv' = [lv EXCEPT !.connected = FALSE]
  /\ g' = [g EXCEPT !.failed = -1]
  /\ ThreadExit
  /\ UNCHANGED <<pauseEvent, stopEvent, ctl, st, keysSet, file, records, exp,
                 exported, corrQ, used, fn>>

(***************************************************************************)
(* _process_shop                                                           *)
(***************************************************************************)
CurrentTask == Tasks[lv.current_task_index + 1]

\* the locals of one loop iteration go out of scope at its end
EndIteration(l) ==
  [l EXCEPT !.pending = <<>>, !.mode = "NORMAL", !.boundary_y = 0, !.has_boundary = FALSE,
            !.next_category = "", !.zones = <<>>, !.selected = "", !.next_cat = "",
            !.divider_y = 0, !.last_target = "", !.current_new_count = 0,
            !.next_new_count = 0]

\* the locals of the collection loop go out of scope when it returns
EndCollection(l) ==
  [EndIteration(l) EXCEPT !.categories = <<>>, !.current_category = "",
                          !.current_category_index = 0,
                          !.is_last_category = FALSE, !.no_new_count = 0,
                          !.scroll_count = 0, !.mock_index = 0, !.path = "none",
                          !.resume_mode = FALSE]

\* _process_shop returns to _run: the recovery branch adds one to the task
\* index, the task loop goes on with its next index
Returned(l) ==
  IF l.after_resume
    THEN [EndCollection(l) EXCEPT !.current_task_index = @ + 1,
                                  !.i = l.current_task_index + 1,
                                  !.after_resume = FALSE]
    ELSE [EndCollection(l) EXCEPT !.i = @ + 1]

\* ExcelExporter.export: None without a shop name or without records,
\* otherwise the file <shop>_<task_id>.xlsx is (over)written
export(files, e, recs) ==
  IF e.shop = 0 \/ recs = <<>>
    THEN files
    ELSE {f \in files : ~(f.shop = e.shop /\ f.task_id = e.task_id)}
           \cup {[shop |-> e.shop, task_id |-> e.task_id, recs |-> recs]}

ShopBegin ==
  /\ pc = "shop_begin"
  /\ IF ~lv.resume_mode
       THEN /\ st' = reset_for_new_shop(st, CurrentTask.shop)
            /\ keysSet' = {}
            /\ records' = <<>>
            /\ exp' = [shop |-> CurrentTask.shop, task_id |-> lv.current_task_index + 1]
       ELSE UNCHANGED <<st, keysSet, records, exp>>
  /\ \E in_store \in BOOLEAN :
       /\ pc' = IF lv.is_mock THEN "mock"
                ELSE IF in_store THEN "seamless_init" ELSE "nav"
       /\ lv' = [lv EXCEPT !.collected_count =
                              IF lv.resume_mode THEN Cardinality(keysSet) ELSE 0,
                           !.mock_index = 0,
                           !.path = IF lv.is_mock THEN "mock"
                                    ELSE IF in_store THEN "seamless" ELSE "full"]
  /\ g' = [g EXCEPT !.failed = -1]
  /\ UNCHANGED <<status, pauseEvent, stopEvent, threads, ctl, file, exported, corrQ,
                 used, fn>>

\* a failure of _process_shop that ends the whole run
NavFailEndsRun ==
  /\ pc = "nav"
  /\ lv' = Returned(lv)
  /\ pc' = "finish"
  /\ g' = [g EXCEPT !.failed = lv.current_task_index]
  /\ UNCHANGED <<status, pauseEvent, stopEvent, threads, ctl, st, keysSet, file, records,
                 exp, exported, corrQ, used, fn>>

\* steps 1-6 of the full path: app restart, navigation, searches; each step
\* can fail (return False) or raise (caught by the handler of _process_shop,
\* which returns False), and _check_control is consulted between the steps
NavFail ==
  /\ pc = "nav"
  /\ lv' = Returned(lv)
  /\ pc' = "loop"
  /\ g' = [g EXCEPT !.failed = lv.current_task_index]
  /\ UNCHANGED <<status, pauseEvent, stopEvent, threads, ctl, st, keysSet, file, records,
                 exp, exported, corrQ, used, fn>>

\* the navigation steps behind a _check_control that returned True
NavSteps ==
  /\ pc' = "collect_init"
  /\ UNCHANGED <<status, pauseEvent, stopEvent, threads, ctl, lv, st, keysSet, file,
                 records, exp, exported, corrQ, used, g, fn>>

NavOk ==
  /\ pc = "nav"
  /\ Proceed
  /\ NavSteps

\* step 8 of the full path: export, back to _run
ShopExport ==
  /\ pc = "export"
  /\ exported' = export(exported, exp, records)
  /\ lv' = Returned(lv)
  /\ g' = [g EXCEPT !.zero_same = 0]
  /\ pc' = "loop"
  /\ UNCHANGED <<status, pauseEvent, stopEvent, threads, ctl, st, keysSet, file, records,
                 exp, corrQ, used, fn>>

(***************************************************************************)
(* _collect_products_by_structure: the cards of the snapshot one by one    *)
(***************************************************************************)
BeginCollect(l, snap, category_name, mode, boundary_y, next_category, cats) ==
  [l EXCEPT !.pending = snap.items,
            !.mode = mode,
            !.boundary_y = boundary_y,
            !.next_category = next_category,
            !.zones = _build_category_zones(
                        _detect_all_category_titles_on_screen(snap.titles, SeqToSet(cats)),
                        ScreenHeight),
            !.selected = snap.selected,
            !.current_new_count = 0,
            !.next_new_count = 0]

HeadTarget ==
  TargetCategory(lv.pending[1].y, lv.current_category, lv.mode, lv.boundary_y,
                 lv.next_category, lv.zones)

HeadKey == generate_key(st.current_shop_name, HeadTarget, lv.pending[1].name, "")

\* a card that is skipped: held back below the boundary, or already collected
AcceptSkip ==
  /\ pc = "accept"
  /\ lv.pending # <<>>
  /\ HeadTarget = SKIP \/ is_collected(HeadKey)
  /\ lv' = [lv EXCEPT !.pending = Tail(@)]
  /\ UNCHANGED <<status, pauseEvent, stopEvent, threads, ctl, pc, st, keysSet, file,
                 records, exp, exported, corrQ, used, g, fn>>

\* exporter.add_record(record) and the first half of add_collected(key)
AcceptAdd ==
  /\ pc = "accept"
  /\ lv.pending # <<>>
  /\ HeadTarget # SKIP
  /\ ~is_collected(HeadKey)
  /\ records' = Append(records, create_drug_record(HeadTarget, lv.pending[1].name))
  /\ keysSet' = keysSet \cup {HeadKey}
  /\ st' = [st EXCEPT !.collected_keys = Append(@, HeadKey)]
  /\ lv' = [lv EXCEPT !.last_target = HeadTarget]
  /\ g' = [g EXCEPT !.reemitted = @ \/ HeadKey \in g.loaded_keys]
  /\ pc' = "accept_count"
  /\ UNCHANGED <<status, pauseEvent, stopEvent, threads, ctl, file, exp, exported,
                 corrQ, used, fn>>

\* the second half of add_collected(key), then the counters of the worker
AcceptCount ==
  /\ pc = "accept_count"
  /\ st' = [st EXCEPT !.collected_count = Cardinality(keysSet)]
  /\ lv' = [lv EXCEPT !.pending = Tail(@),
                      !.collected_count = @ + 1,
                      !.current_new_count =
                          IF lv.last_target = lv.current_category THEN @ + 1 ELSE @,
                      !.next_new_count =
                          IF lv.last_target = lv.current_category THEN @ ELSE @ + 1]
  /\ pc' = "accept"
  /\ UNCHANGED <<status, pauseEvent, stopEvent, threads, ctl, keysSet, file, records, exp,
                 exported, corrQ, used, g, fn>>

\* the end of _collect_products_by_structure: save() when something was accepted
CollectSave == IF lv.current_new_count + lv.next_new_count > 0 THEN save(st) ELSE file

(***************************************************************************)
(* _collect_all_categories                                                 *)
(***************************************************************************)
CollectInit ==
  /\ pc = "collect_init"
  /\ \E listed \in {<<>>, Cats} :
       LET categories == IF lv.resume_mode /\ st.all_categories # <<>>
                           THEN st.all_categories ELSE listed
           saved == st.current_category_name
           use_saved == lv.resume_mode /\ saved # "" /\ saved \in SeqToSet(categories)
           start_index == IF use_saved THEN IndexOf(categories, saved) - 1 ELSE 0
       IN IF categories = <<>>
            THEN /\ pc' = "export"
                 /\ UNCHANGED <<lv, st>>
            ELSE /\ st' = [st EXCEPT !.all_categories = categories,
                                     !.current_category_name = categories[start_index + 1],
                                     !.current_category_index = start_index]
                 /\ lv' = [lv EXCEPT !.categories = categories,
                                     !.current_category = categories[start_index + 1],
                                     !.current_category_index = start_index,
                                     !.is_last_category = (start_index = Len(categories) - 1),
                                     !.no_new_count = 0,
                                     !.scroll_count = 0,
                                     !.pending = <<>>]
                 /\ pc' = "iter_full"
  /\ g' = [g EXCEPT !.zero_same = 0]
  /\ UNCHANGED <<status, pauseEvent, stopEvent, threads, ctl, keysSet, file, records, exp,
                 exported, corrQ, used, fn>>

\* the loop ends (scroll cap) or _check_control returns False: back in
\* _process_shop, which goes on to the export
IterFullEnd ==
  /\ pc = "iter_full"
  /\ lv.scroll_count >= MaxScroll \/ Stopped
  /\ pc' = "export"
  /\ UNCHANGED <<status, pauseEvent, stopEvent, threads, ctl, lv, st, keysSet, file,
                 records, exp, exported, corrQ, used, g, fn>>

\* the value of next_category in _collect_all_categories: assigned once, to ""
FullNextCategory == ""

\* one iteration up to the collection call: capture, boundary detection,
\* the correction timer, choice of the collection mode
IterFullBody ==
  /\ used.snaps < MaxSnaps
  /\ used' = [used EXCEPT !.snaps = @ + 1]
  /\ \E snap \in Snapshots :
       LET b == _detect_category_boundary(snap)
           boundary == b.has /\ b.next # ""
           anchor == _find_last_product_above_boundary(snap.items, b.y)
       IN /\ corrQ' = IF boundary /\ anchor # ""
                        THEN corrQ \cup {[anchor |-> anchor, from |-> lv.current_category,
                                          to |-> b.next]}
                        ELSE corrQ
          /\ lv' = [BeginCollect(lv, snap, lv.current_category,
                                 IF boundary THEN "BOUNDARY" ELSE "NORMAL",
                                 IF boundary THEN b.y ELSE 0,
                                 FullNextCategory, st.categories)
                      EXCEPT !.has_boundary = boundary,
                             !.divider_y = b.y,
                             !.next_cat = b.next]
  /\ g' = [g EXCEPT !.owed = FALSE]
  /\ pc' = "accept"
  /\ UNCHANGED <<status, pauseEvent, stopEvent, threads, ctl, st, keysSet, file, records,
                 exp, exported, fn>>

IterFull ==
  /\ pc = "iter_full"
  /\ lv.scroll_count < MaxScroll
  /\ Proceed
  /\ IterFullBody

\* a loop that never counts its scrolls
NextScroll_stay(scroll_count) == scroll_count

\* scroll_count += 1 at the end of an iteration of either collection loop
NextScroll(scroll_count) == scroll_count + 1

\* the rest of the iteration: category switch, no-new-data counter, scroll
PostFull ==
  /\ pc = "accept"
  /\ lv.pending = <<>>
  /\ lv.path = "full"
  /\ LET accepted == lv.current_new_count + lv.next_new_count
         new_count == IF lv.has_boundary THEN accepted ELSE lv.current_new_count
         switch == lv.has_boundary /\ lv.selected = FullNextCategory
         idx == IF switch THEN lv.current_category_index + 1 ELSE lv.current_category_index
         cur == IF switch THEN FullNextCategory ELSE lv.current_category
         last == IF switch THEN idx = Len(lv.categories) - 1 ELSE lv.is_last_category
         count0 == IF switch THEN 0 ELSE lv.no_new_count
         count1 == IF new_count = 0 THEN count0 + 1 ELSE 0
         current_threshold == IF last THEN LastThreshold ELSE NoNewThreshold
         hit == new_count = 0 /\ count1 >= current_threshold
         s1 == IF switch THEN [st EXCEPT !.current_category_name = cur,
                                         !.current_category_index = idx]
                         ELSE st
         f1 == IF switch THEN save(s1) ELSE CollectSave
         l1 == [EndIteration(lv) EXCEPT !.current_category = cur,
                          !.current_category_index = idx,
                          !.is_last_category = last,
                          !.no_new_count = count1]
     IN /\ g' = [g EXCEPT !.zero_same = IF accepted = 0 /\ ~switch THEN @ + 1 ELSE 0]
        /\ IF hit /\ ~last
             THEN /\ st' = mark_risk_control(s1, lv.categories)
                  /\ file' = save(st')
                  /\ pauseEvent' = FALSE
                  /\ status' = PAUSED
                  /\ lv' = l1
                  /\ pc' = "risk_wait"
             ELSE /\ st' = s1
                  /\ file' = f1
                  /\ UNCHANGED <<pauseEvent, status>>
                  /\ IF hit
                       THEN /\ lv' = l1
                            /\ pc' = "export"
                       ELSE /\ lv' = [l1 EXCEPT !.scroll_count = NextScroll(@)]
                            /\ pc' = "iter_full"
  /\ UNCHANGED <<stopEvent, threads, ctl, keysSet, records, exp, exported, corrQ,
                 used, fn>>

\* the wait loop of the risk-control pause: leaves with True when the pause
\* event is set, with False when only the stop event is set
RiskWaitResume ==
  /\ pc = "risk_wait"
  /\ pauseEvent
  /\ st' = clear_risk_control(st)
  /\ file' = save(st')
  /\ g' = [g EXCEPT !.owed = ~lv.is_last_category]
  /\ pc' = "export"
  /\ UNCHANGED <<status, pauseEvent, stopEvent, threads, ctl, lv, keysSet, records, exp,
                 exported, corrQ, used, fn>>

RiskWaitStop ==
  /\ pc = "risk_wait"
  /\ ~pauseEvent
  /\ stopEvent
  /\ pc' = "export"
  /\ UNCHANGED <<status, pauseEvent, stopEvent, threads, ctl, lv, st, keysSet, file,
                 records, exp, exported, corrQ, used, g, fn>>

(***************************************************************************)
(* _collect_seamless                                                       *)
(***************************************************************************)
\* _detect_category_from_known_list: the topmost known title in the band
\* 0.12h < y < 0.60h of the product area
KnownBandTop == 307

KnownBandBottom == 1536

_detect_category_from_known_list(titles, known_categories) ==
  LET c == SortByY(SelectSeq(titles, LAMBDA t : /\ t.name \in known_categories
                                                /\ KnownBandTop < t.y
                                                /\ t.y < KnownBandBottom))
  IN IF c = <<>> THEN "" ELSE c[1].name

SeamlessInit ==
  /\ pc = "seamless_init"
  /\ \E detected \in {"", "A"} :
       LET current_category == IF detected = "" THEN UNKNOWN ELSE detected
       IN /\ st' = [st EXCEPT !.current_category_name = current_category]
          /\ lv' = [lv EXCEPT !.current_category = current_category,
                              !.no_new_count = 0,
                              !.scroll_count = 0,
                              !.pending = <<>>]
  /\ g' = [g EXCEPT !.zero_same = 0]
  /\ pc' = "iter_seamless"
  /\ UNCHANGED <<status, pauseEvent, stopEvent, threads, ctl, keysSet, file, records, exp,
                 exported, corrQ, used, fn>>

\* the loop ends (scroll cap, or manual stop): export and return True
IterSeamlessEnd ==
  /\ pc = "iter_seamless"
  /\ lv.scroll_count >= MaxScroll \/ Stopped
  /\ pc' = "seamless_export"
  /\ UNCHANGED <<status, pauseEvent, stopEvent, threads, ctl, lv, st, keysSet, file,
                 records, exp, exported, corrQ, used, g, fn>>

IterSeamlessBody ==
  /\ used.snaps < MaxSnaps
  /\ used' = [used EXCEPT !.snaps = @ + 1]
  /\ \E snap \in Snapshots, listed \in {<<>>, Cats} :
       LET categories == IF st.categories # <<>> THEN st.categories ELSE listed
           s1 == IF categories # <<>> THEN [st EXCEPT !.categories = categories] ELSE st
           b == _detect_category_boundary(snap)
           cur == lv.current_category
           inferred == IF b.next = "" /\ cur \in SeqToSet(categories)
                            /\ IndexOf(categories, cur) + 1 <= Len(categories)
                         THEN categories[IndexOf(categories, cur) + 1]
                         ELSE b.next
           anchor_product == _find_last_product_above_boundary(snap.items, b.y)
           sel == IF snap.selected # "" THEN snap.selected
                  ELSE _detect_category_from_known_list(snap.titles, SeqToSet(categories))
           switch == ~b.has /\ sel # "" /\ sel # cur
           new_cur == IF switch THEN sel ELSE cur
       IN /\ st.categories = <<>> \/ listed = <<>>
          /\ records' = IF b.has /\ anchor_product # "" /\ inferred # ""
                          THEN _perform_retroactive_correction(records, anchor_product,
                                                               cur, inferred).records
                          ELSE records
          /\ st' = IF switch THEN [s1 EXCEPT !.current_category_name = new_cur] ELSE s1
          /\ lv' = [BeginCollect([lv EXCEPT !.current_category = new_cur,
                                            !.no_new_count = IF switch THEN 0 ELSE @],
                                 snap, new_cur,
                                 IF b.has THEN "BOUNDARY" ELSE "NORMAL",
                                 IF b.has THEN b.y ELSE 0,
                                 IF b.has THEN inferred ELSE "",
                                 s1.categories)
                      EXCEPT !.has_boundary = b.has,
                             !.divider_y = b.y,
                             !.next_cat = IF b.has THEN inferred ELSE "",
                             !.categories = categories]
          /\ g' = [g EXCEPT !.zero_same = IF switch THEN 0 ELSE @]
  /\ pc' = "accept"
  /\ UNCHANGED <<status, pauseEvent, stopEvent, threads, ctl, keysSet, file, exp,
                 exported, corrQ, fn>>

IterSeamless ==
  /\ pc = "iter_seamless"
  /\ lv.scroll_count < MaxScroll
  /\ Proceed
  /\ IterSeamlessBody

PostSeamless ==
  /\ pc = "accept"
  /\ lv.pending = <<>>
  /\ lv.path = "seamless"
  /\ LET accepted == lv.current_new_count + lv.next_new_count
         new_count == IF lv.has_boundary THEN accepted ELSE lv.current_new_count
         switch == lv.has_boundary /\ lv.next_cat # "" /\ lv.next_new_count > 0
         cur == IF switch THEN lv.next_cat ELSE lv.current_category
         count0 == IF lv.has_boundary THEN 0 ELSE lv.no_new_count
         count1 == IF new_count = 0 THEN count0 + 1 ELSE 0
         is_last == lv.categories # <<>> /\ cur = lv.categories[Len(lv.categories)]
         current_threshold == IF is_last THEN LastThreshold ELSE NoNewThreshold
         hit == new_count = 0 /\ count1 >= current_threshold
     IN /\ st' = IF switch THEN [st EXCEPT !.current_category_name = cur] ELSE st
        /\ file' = IF switch THEN save(st') ELSE CollectSave
        /\ g' = [g EXCEPT !.zero_same = IF accepted = 0 /\ ~switch THEN @ + 1 ELSE 0]
        /\ IF hit /\ is_last
             THEN /\ lv' = [EndIteration(lv) EXCEPT !.current_category = cur,
                                                    !.no_new_count = count1]
                  /\ pc' = "seamless_export"
             ELSE /\ lv' = [EndIteration(lv) EXCEPT !.current_category = cur,
                                                    !.no_new_count = count1,
                                                    !.scroll_count = NextScroll(@)]
                  /\ pc' = "iter_seamless"
  /\ UNCHANGED <<status, pauseEvent, stopEvent, threads, ctl, keysSet, records, exp,
                 exported, corrQ, used, fn>>

SeamlessExport ==
  /\ pc = "seamless_export"
  /\ exported' = export(exported, exp, records)
  /\ lv' = Returned(lv)
  /\ g' = [g EXCEPT !.zero_same = 0]
  /\ pc' = "loop"
  /\ UNCHANGED <<status, pauseEvent, stopEvent, threads, ctl, st, keysSet, file, records,
                 exp, corrQ, used, fn>>

(***************************************************************************)
(* _process_shop_mock                                                      *)
(***************************************************************************)
\* the scroll loop of one category: every mock drug not yet collected is
\* recorded under the category, in the order of MOCK_DRUGS
RECURSIVE MockCollect(_, _, _, _, _)
MockCollect(k, category, shop, recs, keys) ==
  IF k > Len(MockDrugs) THEN [records |-> recs, keys |-> keys]
  ELSE LET key == generate_key(shop, category, MockDrugs[k], "")
       IN IF key \in SeqToSet(keys)
            THEN MockCollect(k + 1, category, shop, recs, keys)
            ELSE MockCollect(k + 1, category, shop,
                             Append(recs, create_drug_record(category, MockDrugs[k])),
                             Append(keys, key))

\* _check_control returns False at the head of a category: return False
MockStop ==
  /\ pc = "mock"
  /\ lv.mock_index < Len(MockCategories)
  /\ Stopped
  /\ lv' = Returned(lv)
  /\ pc' = "loop"
  /\ UNCHANGED <<status, pauseEvent, stopEvent, threads, ctl, st, keysSet, file, records,
                 exp, exported, corrQ, used, g, fn>>

MockCategoryBody ==
  /\ LET category == MockCategories[lv.mock_index + 1]
         r == MockCollect(1, category, st.current_shop_name, records, st.collected_keys)
     IN /\ records' = r.records
        /\ keysSet' = SeqToSet(r.keys)
        /\ st' = [st EXCEPT !.current_category_name = category,
                            !.current_category_index = lv.mock_index,
                            !.collected_keys = r.keys,
                            !.collected_count = Len(r.keys)]
        /\ lv' = [lv EXCEPT !.current_category = category,
                            !.collected_count = @ + (Len(r.records) - Len(records)),
                            !.mock_index = @ + 1]
        /\ g' = [g EXCEPT !.reemitted =
                   @ \/ \E i \in (Len(records) + 1)..Len(r.records) :
                          generate_key(st.current_shop_name, category,
                                       r.records[i].drug_name, "") \in g.loaded_keys]
  /\ pc' = "mock"
  /\ UNCHANGED <<status, pauseEvent, stopEvent, threads, ctl, file, exp, exported,
                 corrQ, used, fn>>

MockCategory ==
  /\ pc = "mock"
  /\ lv.mock_index < Len(MockCategories)
  /\ Proceed
  /\ MockCategoryBody

\* after the last category: export, save, return True
MockExport ==
  /\ pc = "mock"
  /\ lv.mock_index >= Len(MockCategories)
  /\ exported' = export(exported, exp, records)
  /\ file' = save(st)
  /\ lv' = Returned(lv)
  /\ pc' = "loop"
  /\ UNCHANGED <<status, pauseEvent, stopEvent, threads, ctl, st, keysSet, records, exp,
                 corrQ, used, g, fn>>

\* a detached correction timer fires
CorrectionFire ==
  /\ \E c \in corrQ :
       /\ records' = _perform_retroactive_correction(records, c.anchor, c.from, c.to).records
       /\ corrQ' = corrQ \ {c}
  /\ UNCHANGED <<status, pauseEvent, stopEvent, threads, ctl, pc, lv, st, keysSet, file,
                 exp, exported, used, g, fn>>

\* the positions of the worker thread inside _process_shop
InShop == {"nav", "collect_init", "iter_full", "accept", "accept_count", "risk_wait",
           "seamless_init", "iter_seamless", "mock", "export", "seamless_export"}

\* the process is killed and launched again, and the new worker is started:
\* memory is lost, the files stay
Restart ==
  /\ used.events < MaxEvents
  /\ used' = [used EXCEPT !.events = @ + 1]
  /\ SetCtl(start([status |-> IDLE, pauseEvent |-> TRUE, stopEvent |-> FALSE,
                   threads |-> 0]))
  /\ ctl' = "idle"
  /\ pc' = "connect"
  /\ lv' = InitLocals(lv.is_mock)
  /\ st' = InitState
  /\ keysSet' = {}
  /\ records' = <<>>
  /\ exp' = [shop |-> 0, task_id |-> 1]
  /\ corrQ' = {}
  /\ g' = [InitHistory EXCEPT !.killed_mid_shop = pc \in InShop]
  /\ UNCHANGED <<file, exported, fn>>

(***************************************************************************)
(* The system                                                              *)
(***************************************************************************)
Controller ==
  \/ Start
  \/ PauseBegin
  \/ PauseEnd
  \/ ResumeBegin
  \/ ResumeEnd
  \/ StopBegin
  \/ StopRelease
  \/ StopEnd

Worker ==
  \/ RunConnectFail
  \/ RunLoad
  \/ RunResumeNav
  \/ RunLoop
  \/ RunFinish
  \/ ShopBegin
  \/ NavFail
  \/ NavOk
  \/ ShopExport
  \/ CollectInit
  \/ IterFullEnd
  \/ IterFull
  \/ PostFull
  \/ RiskWaitResume
  \/ RiskWaitStop
  \/ SeamlessInit
  \/ IterSeamlessEnd
  \/ IterSeamless
  \/ PostSeamless
  \/ SeamlessExport
  \/ MockStop
  \/ MockCategory
  \/ MockExport
  \/ AcceptSkip
  \/ AcceptAdd
  \/ AcceptCount

Next ==
  \/ Controller
  \/ Worker
  \/ CorrectionFire
  \/ Restart

Spec == Init /\ [][Next]_vars

(***************************************************************************)
(* One collection loop on its own: the worker is at the entry of            *)
(* _collect_all_categories or of _collect_seamless for the first shop, the  *)
(* buttons of the window stay live.  The worker thread is scheduled: a step *)
(* of it that stays possible is taken.                                      *)
(***************************************************************************)
LoopEntry ==
  /\ status = RUNNING
  /\ pauseEvent = TRUE
  /\ stopEvent = FALSE
  /\ threads = 1
  /\ ctl = "idle"
  /\ st = reset_for_new_shop(InitState, 1)
  /\ file = save(st)
  /\ keysSet = {}
  /\ records = <<>>
  /\ exp = [shop |-> 1, task_id |-> 1]
  /\ exported = {}
  /\ corrQ = {}
  /\ used = InitUsed
  /\ g = InitHistory
  /\ \E in_store \in BOOLEAN :
       /\ pc = IF in_store THEN "seamless_init" ELSE "collect_init"
       /\ lv = [InitLocals(FALSE) EXCEPT !.connected = TRUE,
                                         !.path = IF in_store THEN "seamless" ELSE "full"]

InitLoop ==
  /\ LoopEntry
  /\ fn = InitFn

LoopWorker ==
  \/ CollectInit
  \/ IterFullEnd
  \/ IterFull
  \/ PostFull
  \/ RiskWaitResume
  \/ RiskWaitStop
  \/ SeamlessInit
  \/ IterSeamlessEnd
  \/ IterSeamless
  \/ PostSeamless
  \/ AcceptSkip
  \/ AcceptAdd
  \/ AcceptCount

NextLoop ==
  \/ Controller
  \/ LoopWorker
  \/ CorrectionFire

SpecLoop == InitLoop /\ [][NextLoop]_vars /\ WF_vars(LoopWorker)

(***************************************************************************)
(* A collection loop in which the extraction of one iteration raises: the  *)
(* try block of _collect_products_by_structure is left for its handler,    *)
(* which logs; the cards not yet handled are not looked at, the counts     *)
(* reached so far are returned.  fn remembers the iteration that raised,   *)
(* the buffer at that moment and the number of cards left unhandled.       *)
(***************************************************************************)
InitRaise ==
  /\ LoopEntry
  /\ fn = [op |-> "raise", at |-> -1, kept |-> <<>>, dropped |-> 0]

\* an exception that leaves the collection method and the shop
AcceptRaise_aborts ==
  /\ fn.op = "raise"
  /\ fn.at = -1
  /\ pc = "accept"
  /\ lv' = Returned(lv)
  /\ fn' = [fn EXCEPT !.at = lv.scroll_count, !.kept = records,
                      !.dropped = Len(lv.pending)]
  /\ pc' = "loop"
  /\ UNCHANGED <<status, pauseEvent, stopEvent, threads, ctl, st, keysSet, file,
                 records, exp, exported, corrQ, used, g>>

AcceptRaise ==
  /\ fn.op = "raise"
  /\ fn.at = -1
  /\ pc = "accept"
  /\ lv' = [lv EXCEPT !.pending = <<>>]
  /\ fn' = [fn EXCEPT !.at = lv.scroll_count, !.kept = records,
                      !.dropped = Len(lv.pending)]
  /\ UNCHANGED <<status, pauseEvent, stopEvent, threads, ctl, pc, st, keysSet, file,
                 records, exp, exported, corrQ, used, g>>

NextRaise ==
  \/ NextLoop
  \/ AcceptRaise
  \/ ShopExport
  \/ SeamlessExport

SpecRaise == InitRaise /\ [][NextRaise]_vars

(***************************************************************************)
(* One run of the worker: it is started once, the buttons stay live, the   *)
(* process is not killed.  The worker thread is scheduled, and a stop()    *)
(* call that has begun runs to its end.                                    *)
(***************************************************************************)
FirstStart ==
  /\ used.events = 0
  /\ Start

StopRuns ==
  \/ StopRelease
  \/ StopEnd

NextOneRun ==
  \/ FirstStart
  \/ PauseBegin
  \/ PauseEnd
  \/ ResumeBegin
  \/ ResumeEnd
  \/ StopBegin
  \/ StopRuns
  \/ Worker
  \/ CorrectionFire

\* the state file an earlier process left when it was killed in the
\* risk-control pause of the first shop
RiskFile ==
  save(mark_risk_control([reset_for_new_shop(InitState, 1)
                            EXCEPT !.current_category_name = "A"], Cats))

\* the same after one record of the first shop had been collected
RiskFileKeys ==
  save(mark_risk_control([reset_for_new_shop(InitState, 1)
                            EXCEPT !.current_category_name = "A",
                                   !.collected_keys = <<<<1, "p1">>>>,
                                   !.collected_count = 1], Cats))

\* a fresh process, with no state file or with the one of an earlier process
InitOneRun ==
  /\ status = IDLE
  /\ pauseEvent = TRUE
  /\ stopEvent = FALSE
  /\ threads = 0
  /\ ctl = "idle"
  /\ pc = "none"
  /\ \E mock \in BOOLEAN : lv = InitLocals(mock)
  /\ st = InitState
  /\ keysSet = {}
  /\ file \in {NoFile, RiskFile, RiskFileKeys}
  /\ records = <<>>
  /\ exp = [shop |-> 0, task_id |-> 1]
  /\ exported = {}
  /\ corrQ = {}
  /\ used = InitUsed
  /\ g = InitHistory
  /\ fn = InitFn

SpecOneRun == InitOneRun /\ [][NextOneRun]_vars /\ WF_vars(Worker) /\ WF_vars(StopRuns)

(***************************************************************************)
(* _check_control step by step.  A worker that finds the stop event clear  *)
(* and the pause event clear enters the wait loop                          *)
(*   while not pause_event.is_set(): if stop_event.is_set(): return False  *)
(* and sleeps.  The loop condition is tested first: a worker that wakes    *)
(* with the pause event set leaves the loop and returns True without       *)
(* looking at the stop event; only a worker inside the loop body returns   *)
(* False.  The other specifications take the call as one step.             *)
(***************************************************************************)
CheckPoints == {"loop", "nav", "iter_full", "iter_seamless", "mock"}

WaitOf(p) ==
  CASE p = "loop" -> "wait_loop"
    [] p = "nav" -> "wait_nav"
    [] p = "iter_full" -> "wait_iter_full"
    [] p = "iter_seamless" -> "wait_iter_seamless"
    [] p = "mock" -> "wait_mock"

\* the call is reached at the position (the loop conditions before it hold)
CallsCheck ==
  /\ pc \in CheckPoints
  /\ pc = "loop" => lv.i < NumTasks
  /\ pc \in {"iter_full", "iter_seamless"} => lv.scroll_count < MaxScroll
  /\ pc = "mock" => lv.mock_index < Len(MockCategories)

\* the worker enters the wait loop
WaitEnter ==
  /\ CallsCheck
  /\ Blocked
  /\ pc' = WaitOf(pc)
  /\ UNCHANGED <<status, pauseEvent, stopEvent, threads, ctl, lv, st, keysSet, file,
                 records, exp, exported, corrQ, used, g, fn>>

\* the stop event is seen inside the loop body: return False (the caller
\* then finds the stop event set at its own position)
WaitReturnsFalse ==
  /\ \E p \in CheckPoints : pc = WaitOf(p) /\ pc' = p
  /\ stopEvent
  /\ UNCHANGED <<status, pauseEvent, stopEvent, threads, ctl, lv, st, keysSet, file,
                 records, exp, exported, corrQ, used, g, fn>>

\* the loop condition finds the pause event set: return True
RunLoopAfterWait ==
  /\ pc = "wait_loop"
  /\ pauseEvent
  /\ RunLoopTask

NavOkAfterWait ==
  /\ pc = "wait_nav"
  /\ pauseEvent
  /\ NavSteps

IterFullAfterWait ==
  /\ pc = "wait_iter_full"
  /\ pauseEvent
  /\ IterFullBody

IterSeamlessAfterWait ==
  /\ pc = "wait_iter_seamless"
  /\ pauseEvent
  /\ IterSeamlessBody

MockCategoryAfterWait ==
  /\ pc = "wait_mock"
  /\ pauseEvent
  /\ MockCategoryBody

NextWait ==
  \/ Next
  \/ WaitEnter
  \/ WaitReturnsFalse
  \/ RunLoopAfterWait
  \/ NavOkAfterWait
  \/ IterFullAfterWait
  \/ IterSeamlessAfterWait
  \/ MockCategoryAfterWait

\* a worker that has just been started
InitWait ==
  /\ status = RUNNING
  /\ pauseEvent = TRUE
  /\ stopEvent = FALSE
  /\ threads = 1
  /\ ctl = "idle"
  /\ pc = "connect"
  /\ \E mock \in BOOLEAN : lv = InitLocals(mock)
  /\ st = InitState
  /\ keysSet = {}
  /\ file = NoFile
  /\ records = <<>>
  /\ exp = [shop |-> 0, task_id |-> 1]
  /\ exported = {}
  /\ corrQ = {}
  /\ used = InitUsed
  /\ g = InitHistory
  /\ fn = InitFn

SpecWait == InitWait /\ [][NextWait]_vars

\* the program with unhandled errors in _run
NextError ==
  \/ Next
  \/ RunError

SpecError == Init /\ [][NextError]_vars

(***************************************************************************)
(* Zone resolution on its own: titles and an item drawn from small sets,   *)
(* the zones built from the titles in Y order, the item resolved.          *)
(***************************************************************************)
progVars == <<status, pauseEvent, stopEvent, threads, ctl, pc, lv, st, keysSet,
              file, records, exp, exported, corrQ, used, g>>

TitleNames == {"A", "B"}

TitleYs == {100, 400, 800}

ItemYs == {50, 100, 500, 800, 900, 2560}

SeqsUpTo(S, n) == UNION {[1..k -> S] : k \in 0..n}

InitZones ==
  /\ InitProgram
  /\ \E t \in SeqsUpTo([name : TitleNames, y : TitleYs], MaxTitles), y \in ItemYs :
       fn = [op |-> "zones", titles |-> t, y |-> y, fallback |-> "cur", done |-> FALSE,
             zones |-> <<>>, result |-> ""]

ResolveZone ==
  /\ fn.op = "zones"
  /\ ~fn.done
  /\ LET zones == _build_category_zones(SortByY(fn.titles), ScreenHeight)
     IN fn' = [fn EXCEPT !.done = TRUE,
                         !.zones = zones,
                         !.result = _find_category_by_y(fn.y, zones, fn.fallback)]
  /\ UNCHANGED progVars

NextZones == ResolveZone

SpecZones == InitZones /\ [][NextZones]_vars

(***************************************************************************)
(* Retroactive correction on its own: a record list and an anchor drawn    *)
(* from small sets, corrected from "A" to "B".  Drug names are the         *)
(* positions of the records; anchor 0 is a name the list does not hold.    *)
(* A long list starts with PadRecs records of category A, so that its      *)
(* first records lie outside the window of the anchor search.              *)
(***************************************************************************)
RecCats == {"A", "B", "C", UNKNOWN}

InitCorrection ==
  /\ InitProgram
  /\ \E n \in 0..MaxRecs, pad \in {0, PadRecs} :
       \E cats \in [1..n -> RecCats], a \in 0..(pad + n) :
         fn = [op |-> "correct",
               recs |-> [i \in 1..(pad + n) |->
                           [category_name |-> IF i <= pad THEN "A" ELSE cats[i - pad],
                            drug_name |-> i, monthly_sales |-> 10 * i, price |-> 100 + i]],
               anchor |-> a, done |-> FALSE, result |-> <<>>, ret |-> 0,
               ret_is_int |-> TRUE]

Correct ==
  /\ fn.op = "correct"
  /\ ~fn.done
  /\ LET r == _perform_retroactive_correction(fn.recs, fn.anchor, "A", "B")
     IN fn' = [fn EXCEPT !.done = TRUE, !.result = r.records, !.ret = r.ret,
                         !.ret_is_int = r.ret_is_int]
  /\ UNCHANGED progVars

NextCorrection == Correct

SpecCorrection == InitCorrection /\ [][NextCorrection]_vars

\* the same correction applied a second time to the list the first one left,
\* with no append in between
InitTwice ==
  /\ InitProgram
  /\ \E n \in 0..MaxRecs, pad \in {0, PadRecs} :
       \E cats \in [1..n -> RecCats], a \in 0..(pad + n) :
         fn = [op |-> "correct",
               recs |-> [i \in 1..(pad + n) |->
                           [category_name |-> IF i <= pad THEN "A" ELSE cats[i - pad],
                            drug_name |-> i, monthly_sales |-> 10 * i, price |-> 100 + i]],
               anchor |-> a, done |-> FALSE, result |-> <<>>, ret |-> 0,
               ret_is_int |-> TRUE,
               again |-> FALSE, result2 |-> <<>>, ret2 |-> 0, ret2_is_int |-> TRUE]

CorrectAgain ==
  /\ fn.op = "correct"
  /\ fn.done
  /\ ~fn.again
  /\ LET r == _perform_retroactive_correction(fn.result, fn.anchor, "A", "B")
     IN fn' = [fn EXCEPT !.again = TRUE, !.result2 = r.records, !.ret2 = r.ret,
                         !.ret2_is_int = r.ret_is_int]
  /\ UNCHANGED progVars

NextTwice == Correct \/ CorrectAgain

SpecTwice == InitTwice /\ [][NextTwice]_vars

(***************************************************************************)
(* ExcelExporter.export on its own: a buffer, a shop name (0: none set), a *)
(* task id and a results directory drawn from small sets; write_ok says    *)
(* whether building and saving the workbook goes through or raises.        *)
(***************************************************************************)
NoPath == <<>>

\* results_dir/<shop>_<task_id>.xlsx
FilePath(e) == <<e.shop, e.task_id>>

\* export answers a path although the buffer is empty
export_return_without_records(e, recs, write_ok) ==
  IF e.shop = 0 THEN NoPath
  ELSE IF write_ok THEN FilePath(e) ELSE NoPath

\* the value export returns
export_return(e, recs, write_ok) ==
  IF e.shop = 0 THEN NoPath
  ELSE IF recs = <<>> THEN NoPath
  ELSE IF write_ok THEN FilePath(e) ELSE NoPath

ExportShops == {0, 1, 2}

ExportTaskIds == {1, 2}

ExportBuffers ==
  { <<>>,
    <<[category_name |-> "A", drug_name |-> "p1"]>>,
    <<[category_name |-> "A", drug_name |-> "p1"], [category_name |-> "B", drug_name |-> "p2"]>> }

ExportDirs ==
  { {}, {[shop |-> 1, task_id |-> 1, recs |-> <<[category_name |-> "A", drug_name |-> "p0"]>>]} }

InitExport ==
  /\ InitProgram
  /\ \E sh \in ExportShops, t \in ExportTaskIds, b \in ExportBuffers, d \in ExportDirs,
        ok \in BOOLEAN :
       fn = [op |-> "export", e |-> [shop |-> sh, task_id |-> t], recs |-> b,
             files |-> d, write_ok |-> ok, done |-> FALSE, ret |-> NoPath, after |-> d]

\* one call of export(); a save that raises is taken to leave the directory
\* as it was
ExportCall ==
  /\ fn.op = "export"
  /\ ~fn.done
  /\ fn' = [fn EXCEPT !.done = TRUE,
                      !.ret = export_return(fn.e, fn.recs, fn.write_ok),
                      !.after = IF fn.write_ok THEN export(fn.files, fn.e, fn.recs)
                                ELSE fn.files]
  /\ UNCHANGED progVars

NextExport == ExportCall

SpecExport == InitExport /\ [][NextExport]_vars

(***************************************************************************)
(* StateStore.reset on its own: a store in the middle of a session, with   *)
(* or without a state file, is reset and then asked to load.  Removing the *)
(* file is taken to go through, as writing it is everywhere else.          *)
(***************************************************************************)
\* reset that keeps the collected keys
reset_keeps_keys(s) ==
  [ current_task_index |-> 0,
    current_shop_name |-> 0,
    current_category_index |-> 0,
    current_category_name |-> "",
    collected_keys |-> s.collected_keys,
    collected_count |-> 0,
    all_categories |-> <<>>,
    risk_control_hit |-> FALSE,
    categories |-> <<>> ]

\* the dictionary reset() assigns to self.state; it has no key "categories"
reset(s) ==
  [ current_task_index |-> 0,
    current_shop_name |-> 0,
    current_category_index |-> 0,
    current_category_name |-> "",
    collected_keys |-> <<>>,
    collected_count |-> 0,
    all_categories |-> <<>>,
    risk_control_hit |-> FALSE,
    categories |-> <<>> ]

ResetKeys == {<<>>, <<<<1, "p1">>>>, <<<<1, "p1">>, <<1, "p2">>>>}

\* a store as a session leaves it
SessionStates ==
  { [ current_task_index |-> t,
      current_shop_name |-> sh,
      current_category_index |-> IF c = "" THEN 0 ELSE 1,
      current_category_name |-> c,
      collected_keys |-> k,
      collected_count |-> Len(k),
      all_categories |-> a,
      risk_control_hit |-> r,
      categories |-> a ] :
    t \in 0..1, sh \in 1..2, c \in {"", "B"}, k \in ResetKeys,
    a \in {<<>>, <<"A", "B">>}, r \in BOOLEAN }

InitReset ==
  /\ status = IDLE
  /\ pauseEvent = TRUE
  /\ stopEvent = FALSE
  /\ threads = 0
  /\ ctl = "idle"
  /\ pc = "none"
  /\ lv = InitLocals(FALSE)
  /\ st \in SessionStates
  /\ keysSet = SeqToSet(st.collected_keys)
  /\ file \in {NoFile, save(st)}
  /\ records = <<>>
  /\ exp = [shop |-> 0, task_id |-> 1]
  /\ exported = {}
  /\ corrQ = {}
  /\ used = InitUsed
  /\ g = InitHistory
  /\ fn = [op |-> "reset", stage |-> "session", before |-> st, had_file |-> file # NoFile,
           load_ret |-> FALSE]

\* StateStore.reset()
ResetCall ==
  /\ fn.op = "reset"
  /\ fn.stage = "session"
  /\ st' = reset(st)
  /\ keysSet' = {}
  /\ file' = NoFile
  /\ fn' = [fn EXCEPT !.stage = "reset"]
  /\ UNCHANGED <<status, pauseEvent, stopEvent, threads, ctl, pc, lv, records, exp,
                 exported, corrQ, used, g>>

\* StateStore.load() after the reset
LoadAfterReset ==
  /\ fn.op = "reset"
  /\ fn.stage = "reset"
  /\ st' = IF file # NoFile THEN load(st, file) ELSE st
  /\ keysSet' = IF file # NoFile THEN SeqToSet(st'.collected_keys) ELSE keysSet
  /\ fn' = [fn EXCEPT !.stage = "loaded", !.load_ret = (file # NoFile)]
  /\ UNCHANGED <<status, pauseEvent, stopEvent, threads, ctl, pc, lv, file, records, exp,
                 exported, corrQ, used, g>>

NextReset ==
  \/ ResetCall
  \/ LoadAfterReset

SpecReset == InitReset /\ [][NextReset]_vars

(***************************************************************************)
(* StateStore.reset_for_new_shop on its own, on a state dictionary that    *)
(* also has the two per-shop keys the worker never reads back (current_poi *)
(* and scroll_round), for a store as the previous shop leaves it.          *)
(***************************************************************************)
\* a reset that leaves the lookup set alone
reset_for_new_shop_keeps_set(s, keys, shop_name, poi) ==
  [ state |-> [reset_for_new_shop(s, shop_name) EXCEPT !.current_poi = poi,
                                                      !.scroll_round = 0],
    collected_keys_set |-> keys ]

\* the whole method: the nine assignments and collected_keys_set.clear()
reset_for_new_shop_store(s, keys, shop_name, poi) ==
  [ state |-> [reset_for_new_shop(s, shop_name) EXCEPT !.current_poi = poi,
                                                      !.scroll_round = 0],
    collected_keys_set |-> {} ]

ShopPois == {"X", "Y"}

\* a store as the shop before leaves it
ShopStates ==
  { [ current_task_index |-> t,
      current_shop_name |-> 1,
      current_category_index |-> IF c = "" THEN 0 ELSE 1,
      current_category_name |-> c,
      collected_keys |-> k,
      collected_count |-> Len(k),
      all_categories |-> a,
      risk_control_hit |-> r,
      categories |-> a,
      current_poi |-> p,
      scroll_round |-> n ] :
    t \in 0..1, c \in {"", "B"}, k \in ResetKeys, a \in {<<>>, <<"A", "B">>},
    r \in BOOLEAN, p \in ShopPois, n \in 0..1 }

InitShopReset ==
  /\ status = RUNNING
  /\ pauseEvent = TRUE
  /\ stopEvent = FALSE
  /\ threads = 1
  /\ ctl = "idle"
  /\ pc = "shop_begin"
  /\ lv = InitLocals(FALSE)
  /\ st \in ShopStates
  /\ keysSet = SeqToSet(st.collected_keys)
  /\ file = NoFile
  /\ records = <<>>
  /\ exp = [shop |-> 0, task_id |-> 1]
  /\ exported = {}
  /\ corrQ = {}
  /\ used = InitUsed
  /\ g = InitHistory
  /\ \E shop_name \in 1..2, poi \in ShopPois :
       fn = [op |-> "shop_reset", done |-> FALSE, before |-> st, keys_before |-> keysSet,
             shop_name |-> shop_name, poi |-> poi]

ShopResetCall ==
  /\ fn.op = "shop_reset"
  /\ ~fn.done
  /\ LET r == reset_for_new_shop_store(st, keysSet, fn.shop_name, fn.poi)
     IN /\ st' = r.state
        /\ keysSet' = r.collected_keys_set
  /\ fn' = [fn EXCEPT !.done = TRUE]
  /\ UNCHANGED <<status, pauseEvent, stopEvent, threads, ctl, pc, lv, file, records, exp,
                 exported, corrQ, used, g>>

SpecShopReset == InitShopReset /\ [][ShopResetCall]_vars

(***************************************************************************)
(* The attribution of one card on its own: a card of the current category *)
(* "A" at a height drawn from AttrYs, attributed under two divider         *)
(* settings (mode, boundary_y, next_category) and one list of zones.       *)
(***************************************************************************)
AttrYs == {100, 500, 700, 800, 900, 1500}

AttrDividers ==
  { [mode |-> "NORMAL", boundary_y |-> 0, next_category |-> ""],
    [mode |-> "BOUNDARY", boundary_y |-> 400, next_category |-> "B"],
    [mode |-> "BOUNDARY", boundary_y |-> 700, next_category |-> "B"],
    [mode |-> "BOUNDARY", boundary_y |-> 700, next_category |-> ""] }

AttrTitles ==
  { <<>>,
    <<[name |-> "B", y |-> 800]>>,
    <<[name |-> "A", y |-> 400], [name |-> "B", y |-> 1000]>> }

InitAttr ==
  /\ InitProgram
  /\ \E y \in AttrYs, d1 \in AttrDividers, d2 \in AttrDividers, t \in AttrTitles :
       fn = [op |-> "attribute", y |-> y, category_name |-> "A", d1 |-> d1, d2 |-> d2,
             zones |-> _build_category_zones(t, ScreenHeight), done |-> FALSE,
             t1 |-> "", t2 |-> ""]

Attribute ==
  /\ fn.op = "attribute"
  /\ ~fn.done
  /\ fn' = [fn EXCEPT !.done = TRUE,
                      !.t1 = TargetCategory(fn.y, fn.category_name, fn.d1.mode,
                                            fn.d1.boundary_y, fn.d1.next_category, fn.zones),
                      !.t2 = TargetCategory(fn.y, fn.category_name, fn.d2.mode,
                                            fn.d2.boundary_y, fn.d2.next_category, fn.zones)]
  /\ UNCHANGED progVars

NextAttr == Attribute

SpecAttr == InitAttr /\ [][NextAttr]_vars

(***************************************************************************)
(* generate_key on its own: one product of one shop, keyed twice under     *)
(* categories and prices drawn independently.                              *)
(***************************************************************************)
KeyShops == {1, 2}

KeyNames == {"p1", "p1 ", "p2"}

KeyCats == {"A", "B", UNKNOWN}

KeyPrices == {"9.9", "19.8"}

InitKey ==
  /\ InitProgram
  /\ \E sh \in KeyShops, n \in KeyNames, c1 \in KeyCats, c2 \in KeyCats,
        p1 \in KeyPrices, p2 \in KeyPrices :
       fn = [op |-> "key", shop |-> sh, name |-> n, cat1 |-> c1, price1 |-> p1,
             cat2 |-> c2, price2 |-> p2, done |-> FALSE, key1 |-> <<>>, key2 |-> <<>>]

MakeKeys ==
  /\ fn.op = "key"
  /\ ~fn.done
  /\ fn' = [fn EXCEPT !.done = TRUE,
                      !.key1 = generate_key(fn.shop, fn.cat1, fn.name, fn.price1),
                      !.key2 = generate_key(fn.shop, fn.cat2, fn.name, fn.price2)]
  /\ UNCHANGED progVars

NextKey == MakeKeys

SpecKey == InitKey /\ [][NextKey]_vars

(***************************************************************************)
(* _collect_products_by_structure called twice with the same arguments on  *)
(* the same screen, in the middle of shop 1 of a seamless collection.  The *)
(* cards are handled by the actions of the worker; CallAgain is the return *)
(* of the first call followed by the second call, CallReturn the return of *)
(* the second one.                                                         *)
(***************************************************************************)
\* the snapshots of the worker and one that shows a product twice
AcceptSnapshots ==
  Snapshots \cup {Snap(<<Item("p1", 500), Item("p1 ", 900)>>, <<>>, 0, "", "")}

\* (mode, boundary_y, next_category) as the collection loops pass them
AcceptModes ==
  { [mode |-> "NORMAL", boundary_y |-> 0, next_category |-> ""],
    [mode |-> "BOUNDARY", boundary_y |-> 700, next_category |-> "B"],
    [mode |-> "BOUNDARY", boundary_y |-> 700, next_category |-> ""] }

\* StateStore, key set and buffer of shop 1 after the products of `before`
\* were accepted under category A
ShopState(before, cats) ==
  [ st |-> [reset_for_new_shop(InitState, 1) EXCEPT
              !.collected_keys = [i \in DOMAIN before |-> generate_key(1, "A", before[i], "")],
              !.collected_count = Len(before),
              !.categories = cats],
    records |-> [i \in DOMAIN before |-> create_drug_record("A", before[i])] ]

InitAccept ==
  /\ status = RUNNING
  /\ pauseEvent = TRUE
  /\ stopEvent = FALSE
  /\ threads = 1
  /\ ctl = "idle"
  /\ pc = "accept"
  /\ file = NoFile
  /\ exp = [shop |-> 1, task_id |-> 1]
  /\ exported = {}
  /\ corrQ = {}
  /\ used = InitUsed
  /\ g = InitHistory
  /\ \E snap \in AcceptSnapshots, m \in AcceptModes, cats \in {<<>>, Cats},
        category_name \in {"A", UNKNOWN}, before \in {<<>>, <<"p1">>} :
       LET s == ShopState(before, cats)
       IN /\ st = s.st
          /\ keysSet = SeqToSet(s.st.collected_keys)
          /\ records = s.records
          /\ lv = BeginCollect([InitLocals(FALSE) EXCEPT !.path = "seamless",
                                                         !.categories = cats,
                                                         !.current_category = category_name,
                                                         !.collected_count = Len(before)],
                               snap, category_name, m.mode, m.boundary_y, m.next_category,
                               cats)
          /\ fn = [op |-> "accept", snap |-> snap, category_name |-> category_name,
                   m |-> m, calls |-> 1, done |-> FALSE, once |-> <<>>, new1 |-> 0,
                   new2 |-> 0]

\* what a second call could change: buffer, keys, counters and the state file
Collected ==
  [ records |-> records, keysSet |-> keysSet, collected_keys |-> st.collected_keys,
    state_count |-> st.collected_count, worker_count |-> lv.collected_count,
    file |-> file ]

CallAgain ==
  /\ fn.op = "accept"
  /\ fn.calls = 1
  /\ pc = "accept"
  /\ lv.pending = <<>>
  /\ file' = CollectSave
  /\ fn' = [fn EXCEPT !.calls = 2,
                      !.once = [Collected EXCEPT !.file = file'],
                      !.new1 = lv.current_new_count + lv.next_new_count]
  /\ lv' = BeginCollect(lv, fn.snap, fn.category_name, fn.m.mode, fn.m.boundary_y,
                        fn.m.next_category, st.categories)
  /\ UNCHANGED <<status, pauseEvent, stopEvent, threads, ctl, pc, st, keysSet, records,
                 exp, exported, corrQ, used, g>>

CallReturn ==
  /\ fn.op = "accept"
  /\ fn.calls = 2
  /\ ~fn.done
  /\ pc = "accept"
  /\ lv.pending = <<>>
  /\ file' = CollectSave
  /\ fn' = [fn EXCEPT !.done = TRUE,
                      !.new2 = lv.current_new_count + lv.next_new_count]
  /\ UNCHANGED <<status, pauseEvent, stopEvent, threads, ctl, pc, lv, st, keysSet,
                 records, exp, exported, corrQ, used, g>>

NextAccept ==
  \/ AcceptSkip
  \/ AcceptAdd
  \/ AcceptCount
  \/ CallAgain
  \/ CallReturn

SpecAccept == InitAccept /\ [][NextAccept]_vars

(***************************************************************************)
(* Properties                                                              *)
(***************************************************************************)
K1 == <<1, "p1">>

K2 == <<1, "p2">>

\* C1: within one shop's collection the record buffer never holds two
\* records with the same drug name: a product whose key is marked collected
\* is not appended again, whatever snapshots the scroll iterations see.
C1_NoDuplicateRecords ==
  \A i, j \in DOMAIN records : i # j => records[i].drug_name # records[j].drug_name

\* a product that is already in the buffer is on screen again and is the
\* next card to be handled
C1_Witness ==
  /\ pc = "accept"
  /\ lv.pending # <<>>
  /\ HeadTarget # SKIP
  /\ is_collected(HeadKey)
  /\ \E i \in DOMAIN records : records[i].drug_name = Strip(lv.pending[1].name)

\* C2: after a state file holding the keys {k1, k2} was written mid-shop and
\* the process restarted, the worker that loaded the file appends no record
\* for k1 or k2.
C2_NoReemission ==
  (g.killed_mid_shop /\ g.loaded_keys = {K1, K2}) => ~g.reemitted

\* the end of one iteration of a collection loop: every card of the
\* snapshot is handled and the loop moves on
IterationEnds ==
  /\ pc = "accept"
  /\ lv.pending = <<>>
  /\ pc' \in {"iter_full", "iter_seamless", "risk_wait", "export", "seamless_export"}

\* is_last_category of _collect_all_categories, is_last of _collect_seamless
IsLast(l) ==
  IF l.path = "full" THEN l.is_last_category
  ELSE l.categories # <<>> /\ l.current_category = l.categories[Len(l.categories)]

C4_ResumeContinues ==
  g.owed => pc \notin {"loop", "shop_begin", "finish", "none"}

\* C5: start, pause, resume and stop are idempotent: in every state, the
\* call made twice in a row leaves status, the two events and the number of
\* live threads as the call made once; there is never a second thread.
C5_Idempotent ==
  /\ threads \in {0, 1}
  /\ start(start(Ctl)) = start(Ctl)
  /\ pause(pause(Ctl)) = pause(Ctl)
  /\ resume(resume(Ctl)) = resume(Ctl)
  /\ stop(stop(Ctl)) = stop(Ctl)

\* the worker thread is alive and paused: start finds the live thread,
\* pause finds the status already PAUSED
C5_Witness ==
  /\ threads = 1
  /\ status = PAUSED
  /\ ~pauseEvent
  /\ pc = "accept"
  /\ start(Ctl) = Ctl
  /\ pause(Ctl) = Ctl
  /\ resume(Ctl) # Ctl

\* C6: every document written to the state file is consistent:
\* collected_count is the number of entries of collected_keys.
C6_ConsistentFile ==
  file # NoFile => file.collected_count.v = Len(file.collected_keys.v)

\* C7: when stop was signalled and the worker thread has exited, the
\* records accepted for the shop are in the shop's result file.
C7_PartialExport ==
  (threads = 0 /\ pc = "none" /\ stopEvent /\ records # <<>>) =>
    \E f \in exported :
      /\ f.shop = exp.shop
      /\ f.task_id = exp.task_id
      /\ Len(f.recs) = Len(records)
      /\ \A i \in DOMAIN records : f.recs[i].drug_name = records[i].drug_name

\* C8: with a divider at Y = d and no next category resolved, no card with
\* Y >= d is recorded under the current category.
C8_HeldBack ==
  (/\ pc = "accept_count"
   /\ lv.divider_y > 0
   /\ lv.next_cat = ""
   /\ lv.pending[1].y >= lv.divider_y)
    => lv.last_target # lv.current_category

ThirdAfter(recs, k) ==
  LET third == {j \in (k + 1)..Len(recs) :
                  recs[j].category_name \notin {"A", "B", UNKNOWN}}
  IN IF third = {} THEN Len(recs) + 1 ELSE CHOOSE j \in third : \A m \in third : j <= m

C11_KeyIgnoresCategoryAndPrice ==
  (fn.op = "key" /\ fn.done) => fn.key1 = fn.key2

\* the product was keyed under two different categories and prices
C11_Witness ==
  /\ fn.op = "key"
  /\ fn.done
  /\ fn.cat1 # fn.cat2
  /\ fn.price1 # fn.price2
  /\ fn.key1 = fn.key2

\* C12: the extract-and-accept step run twice on the same snapshot, with
\* the same arguments, for the same shop: the second run accepts nothing and
\* leaves the record buffer, the key set, the counters and the state file as
\* the first run left them.
C12_SecondRunAcceptsNothing ==
  (fn.op = "accept" /\ fn.done) =>
    /\ fn.new2 = 0
    /\ Collected = fn.once

\* the first run accepted two products, the second run is over
C12_Witness ==
  /\ fn.op = "accept"
  /\ fn.done
  /\ fn.new1 = 2
  /\ Len(records) = 2
  /\ fn.new2 = 0

C14_FailureAbortsOneShop ==
  [][ /\ (g'.failed >= 0 /\ g'.failed # g.failed)
           => (pc' = "loop" /\ lv'.i = g'.failed + 1)
      /\ (pc = "loop" /\ pc' \notin {"loop", "none", "connect"})
           => IF lv.i < NumTasks /\ ~stopEvent
                THEN pc' = "shop_begin" /\ lv'.current_task_index = lv.i
                ELSE pc' = "finish" ]_vars

\* the first task has failed and the worker has taken up the second one
C14_Witness ==
  /\ g.failed = 0
  /\ pc = "shop_begin"
  /\ lv.current_task_index = 1
  /\ ~stopEvent

\* C15: when the handler of _run has caught an unhandled error, the worker
\* is in status ERROR with the message kept, the device is disconnected and
\* the records collected so far are in the result file of their shop.
C15_ErrorExportsRecords ==
  (threads = 0 /\ pc = "none" /\ status = ERROR /\ lv.error_message = "exception") =>
    /\ ~lv.connected
    /\ records # <<>> =>
         \E f \in exported :
           /\ f.task_id = exp.task_id
           /\ Len(f.recs) = Len(records)
           /\ \A i \in DOMAIN records : f.recs[i].drug_name = records[i].drug_name

\* C16 as stated: export() returns no path and writes no file when the
\* buffer is empty; in every other case it returns the path of the file it
\* wrote.
C16_AsClaimed ==
  (fn.op = "export" /\ fn.done) =>
    IF fn.recs = <<>>
      THEN fn.ret = NoPath /\ fn.after = fn.files
      ELSE /\ fn.ret = FilePath(fn.e)
           /\ \E f \in fn.after : <<f.shop, f.task_id>> = fn.ret /\ f.recs = fn.recs

\* C16: export() returns no path and writes no file when the buffer is empty
\* or no shop name is set; it returns no path when writing the file raises;
\* in every other case it returns the path of the file it wrote, and that
\* file holds the buffer.
C16_ExportResult ==
  (fn.op = "export" /\ fn.done) =>
    IF fn.recs = <<>> \/ fn.e.shop = 0
      THEN fn.ret = NoPath /\ fn.after = fn.files
      ELSE IF ~fn.write_ok
        THEN fn.ret = NoPath
        ELSE /\ fn.ret = FilePath(fn.e)
             /\ \E f \in fn.after : <<f.shop, f.task_id>> = fn.ret /\ f.recs = fn.recs

\* export() has written a file over an older one and returned its path
C16_Witness ==
  /\ fn.op = "export"
  /\ fn.done
  /\ fn.recs # <<>>
  /\ fn.files # {}
  /\ fn.ret = <<1, 1>>
  /\ fn.after # fn.files

C20_ZonesFirst ==
  (fn.op = "attribute" /\ fn.done /\ fn.zones # <<>>) =>
    /\ fn.t1 = _find_category_by_y(fn.y, fn.zones, fn.category_name)
    /\ fn.t2 = fn.t1

\* a card below a divider with a known next category "B" was attributed to
\* its zone "A", as it was without a divider
C20_Witness ==
  /\ fn.op = "attribute"
  /\ fn.done
  /\ Len(fn.zones) = 2
  /\ fn.d1 = [mode |-> "BOUNDARY", boundary_y |-> 700, next_category |-> "B"]
  /\ fn.d2.mode = "NORMAL"
  /\ fn.y = 900
  /\ fn.t1 = "A"

\* C19: the rest of an iteration whose boundary step recorded at least one
\* item under a next category different from the current one makes that
\* category the current one, in the worker and in the state, adds one to the
\* category index of the state, leaves the no-new-data counter at zero and
\* writes the state file.
C19_BoundarySwitch ==
  [][ (/\ pc = "accept" /\ lv.pending = <<>>
       /\ pc' \in {"iter_full", "export", "risk_wait", "iter_seamless", "seamless_export"}
       /\ lv.has_boundary /\ lv.next_cat # "" /\ lv.next_cat # lv.current_category
       /\ lv.next_new_count > 0)
      => /\ lv'.current_category = lv.next_cat
         /\ st'.current_category_name = lv.next_cat
         /\ lv'.no_new_count = 0
         /\ file' = save(st')
         /\ st'.current_category_index = st.current_category_index + 1 ]_vars

\* C21: a retroactive correction is done inside the step that detected the
\* boundary: the record list is never rewritten by a correction that runs on
\* its own while the worker stands in the middle of an iteration or behind it.
C21_CorrectionInsideIteration ==
  [][ ~(/\ corrQ' # corrQ
        /\ corrQ' \subseteq corrQ
        /\ pc' = pc /\ lv' = lv /\ used' = used) ]_vars

\* C22: the anchor is looked for among the last 8 records only: when none of
\* them bears the anchor name, or the list is empty, the correction changes
\* no record and returns 0.
C22_AnchorWindow ==
  (/\ fn.op = "correct" /\ fn.done
   /\ \A i \in DOMAIN fn.recs : i > Len(fn.recs) - 8 => fn.recs[i].drug_name # fn.anchor) =>
    /\ fn.result = fn.recs
    /\ fn.ret = 0

\* the second of ten records is the anchor: it lies outside the window, and
\* the records of category A behind it stay as they were
C22_Witness ==
  /\ fn.op = "correct"
  /\ fn.done
  /\ Len(fn.recs) = 10
  /\ fn.anchor = 2
  /\ fn.recs[10].category_name = "A"
  /\ fn.result = fn.recs
  /\ fn.ret = 0

\* C23: a correction rewrites category names only: the list keeps its length
\* and order, every record keeps its drug name, sales and price, the anchor
\* and the records before it keep their category as well, and the set and
\* list of collected keys and the state file stay as they were.
C23_OnlyCategoryChanges ==
  [][ (fn.op = "correct" /\ ~fn.done /\ fn'.done) =>
        /\ Len(fn'.result) = Len(fn.recs)
        /\ \A j \in DOMAIN fn.recs :
             /\ fn'.result[j].drug_name = fn.recs[j].drug_name
             /\ fn'.result[j].monthly_sales = fn.recs[j].monthly_sales
             /\ fn'.result[j].price = fn.recs[j].price
             /\ (\E k \in j..Len(fn.recs) : fn.recs[k].drug_name = fn.anchor)
                  => fn'.result[j] = fn.recs[j]
        /\ keysSet' = keysSet
        /\ st' = st
        /\ file' = file ]_vars

\* the anchor is the second of three records of category A: the third one
\* was rewritten, the first two were not
C23_Witness ==
  /\ fn.op = "correct"
  /\ fn.done
  /\ Len(fn.recs) = 3
  /\ fn.anchor = 2
  /\ [i \in 1..3 |-> fn.recs[i].category_name] = <<"A", "A", "A">>
  /\ [i \in 1..3 |-> fn.result[i].category_name] = <<"A", "A", "B">>

\* C24: the value a correction returns is an int, the number of records
\* whose category it changed, 0 included.
C24_ReturnsCount ==
  (fn.op = "correct" /\ fn.done) =>
    /\ fn.ret_is_int
    /\ fn.ret = Cardinality({j \in DOMAIN fn.recs : fn.result[j] # fn.recs[j]})

\* the positions of the worker inside the scroll loop of a collection method
InScrollLoop == pc \in {"iter_full", "iter_seamless", "accept", "accept_count", "risk_wait"}

\* C25: the scroll loop of a shop terminates: a worker inside a collection
\* loop leaves it, whatever the screens show, unless a pause is pending; and
\* the loop never holds more than max_scroll_times counted scrolls.
C25_ScrollLoopEnds ==
  /\ InScrollLoop ~> (~InScrollLoop \/ ~pauseEvent)
  /\ [](InScrollLoop => lv.scroll_count <= MaxScroll)

\* the full loop ran to its cap with neither stop nor pause and returned
C25_Witness ==
  /\ pc = "export"
  /\ lv.scroll_count = MaxScroll
  /\ used.snaps = MaxScroll
  /\ ~stopEvent
  /\ pauseEvent
  /\ status = RUNNING

\* the step that ends an iteration whose extraction raised
RaisedIterationEnds ==
  /\ fn.op = "raise"
  /\ fn.at = lv.scroll_count
  /\ pc = "accept"
  /\ lv.pending = <<>>
  /\ pc' # pc

\* the new-item count the loop sees for the iteration
IterationCount ==
  IF lv.has_boundary THEN lv.current_new_count + lv.next_new_count
  ELSE lv.current_new_count

\* the records of the buffer at the exception are the first of recs
KeptIn(recs) ==
  /\ Len(recs) >= Len(fn.kept)
  /\ \A i \in DOMAIN fn.kept : recs[i].drug_name = fn.kept[i].drug_name

C27_CounterCountsEmptyIterations ==
  [][ IterationEnds =>
        LET accepted == lv.current_new_count + lv.next_new_count
            switched == \/ lv'.current_category # lv.current_category
                        \/ lv'.current_category_index # lv.current_category_index
        IN IF accepted > 0
             THEN lv'.no_new_count = 0
             ELSE lv'.no_new_count = (IF switched THEN 0 ELSE lv.no_new_count) + 1 ]_vars

\* the state file holds the category name, category index, collected keys
\* and risk flag of the state in memory
Persisted(s, f) ==
  /\ f # NoFile
  /\ LET d == json_load(f)
     IN /\ d.current_category_name = s.current_category_name
        /\ d.current_category_index = s.current_category_index
        /\ d.collected_keys = s.collected_keys
        /\ d.risk_control_hit = s.risk_control_hit

\* the step starts a worker anew (start of an idle worker, or a new process)
Launched == pc' = "connect" /\ used'.events # used.events

\* a step of a scroll loop of the collector that changes the current category
CategorySwitch ==
  /\ pc \in {"iter_full", "iter_seamless", "accept"}
  /\ ~Launched
  /\ \/ st'.current_category_name # st.current_category_name
     \/ st'.current_category_index # st.current_category_index

RiskTrip == ~st.risk_control_hit /\ st'.risk_control_hit

\* pause() or stop() returns
PauseDone == ctl = "pause" /\ ctl' = "idle" /\ ~Launched

StopDone == ctl = "stop2" /\ ctl' = "idle" /\ ~Launched

\* C28: the session state is written to the state file after every
\* state-affecting event: after each category switch, risk-control trip,
\* pause and stop the state file holds the category name, category index,
\* collected keys and risk flag that are in memory at that point.
C28_SavedAfterEveryEvent ==
  [][ (CategorySwitch \/ RiskTrip \/ PauseDone \/ StopDone) => Persisted(st', file') ]_vars

\* the persisted state has riskControlHit = true
MarkerOnDisk(f) == f # NoFile /\ json_load(f).risk_control_hit

\* the worker leaves the wait loop of a risk-control pause during which
\* stop() was called and resume() was not (the status is still PAUSED)
StoppedInRiskPause ==
  /\ pc = "risk_wait"
  /\ pc' # pc
  /\ ~Launched
  /\ stopEvent
  /\ status = PAUSED

\* from the trip until a signal arrives the persisted state has the marker
MarkerDurableWhilePaused == (pc = "risk_wait" /\ ~pauseEvent) => MarkerOnDisk(file)

\* C29: the risk-control marker is durable across the pause: a stop
\* signalled during the risk-control pause, with no resume, leaves
\* riskControlHit = true in the persisted state when the worker leaves the
\* pause, so that the next start loads it and recovers.
C29_MarkerSurvivesStop == [][ StoppedInRiskPause => MarkerOnDisk(file') ]_vars

\* a step of the worker thread inside one execution of _run, after its load
InOneRun == pc \notin {"none", "connect"} /\ pc' # "connect"

\* C30: tasks are consumed in list order, one at a time.  When
\* _process_shop starts for task i, the state file holds taskIndex = i; a
\* worker that loads a state file continues from the index in it; within
\* one run the loop index never goes back, the task loop enters the task of
\* its index, and a task that was left moves the index just past it, so no
\* index is processed twice or before a lower one that is still to come.
C30_TasksInOrder ==
  /\ [](pc = "shop_begin" =>
          /\ file # NoFile
          /\ json_load(file).current_task_index = lv.current_task_index)
  /\ [][ (pc = "connect" /\ pc' \in {"loop", "resume_nav"} /\ file # NoFile) =>
          /\ lv'.current_task_index = json_load(file).current_task_index
          /\ lv'.i = lv'.current_task_index ]_vars
  /\ [][ InOneRun =>
          /\ lv'.i >= lv.i
          /\ (pc = "loop" /\ pc' = "shop_begin") => lv'.current_task_index = lv.i
          /\ (pc # "loop" /\ pc' = "loop") => lv'.i = lv.current_task_index + 1 ]_vars

\* the second task begins after the first was processed and exported
C30_Witness ==
  /\ pc = "shop_begin"
  /\ lv.current_task_index = 1
  /\ ~lv.after_resume
  /\ json_load(file).current_task_index = 1
  /\ \E f \in exported : f.shop = 1

\* C31: reset_for_new_shop sets the shop name and the poi to its arguments,
\* resets category index and name, scroll round, collected keys and count,
\* category list and risk flag, leaves current_task_index as it was, and
\* after it no key is reported as collected.
C31_ShopReset ==
  (fn.op = "shop_reset" /\ fn.done) =>
    /\ st.current_shop_name = fn.shop_name
    /\ st.current_poi = fn.poi
    /\ st.current_category_index = 0
    /\ st.current_category_name = ""
    /\ st.scroll_round = 0
    /\ st.collected_keys = <<>>
    /\ st.collected_count = 0
    /\ st.all_categories = <<>>
    /\ st.risk_control_hit = FALSE
    /\ st.current_task_index = fn.before.current_task_index
    /\ \A k \in UNION {SeqToSet(ks) : ks \in ResetKeys} : ~is_collected(k)

\* the reset of a store that held two keys, a category list, the risk flag
\* and task index 1, for another shop and poi
C31_Witness ==
  /\ fn.op = "shop_reset"
  /\ fn.done
  /\ Cardinality(fn.keys_before) = 2
  /\ fn.before.risk_control_hit
  /\ fn.before.all_categories # <<>>
  /\ fn.before.scroll_round = 1
  /\ fn.before.current_task_index = 1
  /\ fn.shop_name = 2
  /\ fn.poi # fn.before.current_poi
  /\ st.current_task_index = 1

\* stop() has just set the stop event of a worker with a live thread
StopCalledLive == ctl = "stop1" /\ threads > 0

\* after stop() on a live thread the worker thread exits
StopEndsThread == StopCalledLive ~> (threads = 0)

\* C32: after stop() is called on a worker with a live thread, under fair
\* scheduling the status becomes STOPPED and stays STOPPED (the run is not
\* started again), in every interleaving of stop() with the worker's own
\* status updates.
C32_StopLeadsToStopped == StopCalledLive ~> [](status = STOPPED)

\* C33: the reported status agrees with the worker thread: whenever no
\* worker thread is alive and no call of start, pause, resume or stop is
\* under way, the status is IDLE, COMPLETED, STOPPED or ERROR, never RUNNING,
\* PAUSED or STOPPING.
C33_StatusAgreesWithThread ==
  (threads = 0 /\ ctl = "idle") => status \in {IDLE, COMPLETED, STOPPED, ERROR}

\* the worker was blocked in the wait loop of _check_control, at the head of
\* a scroll loop, and the stop event is set
StoppedInPause == pc \in {"wait_iter_full", "wait_iter_seamless"} /\ stopEvent

\* C34: _check_control never returns True once stop has been signalled: a
\* worker that is blocked in a pause and is then stopped captures no further
\* screen.
C34_NoWorkAfterStop == [][ StoppedInPause => used'.snaps = used.snaps ]_vars


\* while the worker is inside the loop of _collect_all_categories
InFullLoop == lv.path = "full" /\ pc \in {"iter_full", "accept"}

\* C35: during _collect_all_categories the current category index is an
\* index of the category list, the current category is the entry at that
\* index and is never the empty string, and the last-category flag is true
\* exactly when the index is the last one.
C35_CategoryConsistent ==
  InFullLoop =>
    /\ lv.current_category_index >= 0
    /\ lv.current_category_index < Len(lv.categories)
    /\ lv.current_category = lv.categories[lv.current_category_index + 1]
    /\ lv.current_category # ""
    /\ lv.is_last_category <=> (lv.current_category_index = Len(lv.categories) - 1)

\* the worker is at a _check_control call of a collection loop, or waits in
\* the risk-control pause
AtSuspension == pc \in {"iter_full", "iter_seamless", "risk_wait"}

\* C36: at every suspension point the exporter's buffer, the worker's
\* collected_count, the state store's collected_count, its key set and its
\* key list all have the same size.
C36_CountersAgree ==
  AtSuspension =>
    /\ Len(records) = lv.collected_count
    /\ lv.collected_count = st.collected_count
    /\ st.collected_count = Cardinality(keysSet)
    /\ Cardinality(keysSet) = Len(st.collected_keys)

\* C37: when a worker is started after a run that reached COMPLETED, the
\* state file its run will load does not hold a task index past the first
\* task, so that the run processes the task list from its first task.
C37_StartAfterCompleted ==
  [][ (status = COMPLETED /\ Launched) =>
        (file' = NoFile \/ json_load(file').current_task_index = 0) ]_vars

\* a scheduled correction is applied (a relaunch of the process, which ends
\* its timers, is not one)
CorrectionApplied == corrQ' # corrQ /\ corrQ' \subseteq corrQ /\ ~Launched

\* the positions of _process_shop from the collection loop of
\* _collect_all_categories up to the export that follows it
BeforeExport == {"iter_full", "accept", "accept_count", "risk_wait", "export"}

\* C38: a correction scheduled while a shop is being collected is applied
\* while the worker is still in that shop's full collection and before the
\* shop's records are exported, never after the export or in a later shop.
C38_CorrectionBeforeExport ==
  [][ CorrectionApplied => (pc \in BeforeExport /\ lv.path = "full") ]_vars

\* the second application leaves every record as the first one left it
SecondChangesNothing == (fn.op = "correct" /\ fn.again) => fn.result2 = fn.result

\* C39: a correction applied a second time to an unchanged record list
\* changes no record and returns 0.
C39_CorrectionIdempotent ==
  (fn.op = "correct" /\ fn.again) =>
    /\ fn.result2 = fn.result
    /\ fn.ret2_is_int
    /\ fn.ret2 = 0

============================================================================
